---- MODULE Spec2Model ----
(***************************************************************************)
(* Model of the fractal computation engine of kill-pr0cess.inc             *)
(* (backend/src/services/fractal_service.rs), of the places that call it   *)
(* (routes/fractals.rs, routes/health.rs, services/mod.rs, main.rs,        *)
(* lib.rs), of the request validation of models/fractals.rs, of the        *)
(* utilities of utils/error.rs, utils/metrics.rs, utils/mod.rs and lib.rs, *)
(* and of the cache of services/cache_service.rs.                          *)
(*                                                                         *)
(* The specifications of this module share its variables; each leaves the  *)
(* variables of the others unchanged.                                      *)
(*   Spec            the engine: one call of generate_mandelbrot /         *)
(*                   generate_julia executed pixel by pixel by a pool of   *)
(*                   workers, the rows collected, the buffer assembled.    *)
(*   SpecApi         the callers: every place of the program that builds a *)
(*                   FractalRequest, with the program's own bounds, and    *)
(*                   the performance figures of the two HTTP handlers.     *)
(*   SpecConcurrent  two calls of the engine in flight at the same time.   *)
(*   SpecFunctions   the pure functions applied to drawn arguments.        *)
(*   SpecRetry       the two retry_with_backoff functions and              *)
(*                   is_retryable; SpecRetryFair adds that every await of  *)
(*                   the retry loops completes.                            *)
(*   SpecMetrics     tasks adding to a MetricsCollector counter.           *)
(*   SpecLimiter     threads calling a RateLimiter while time passes.      *)
(*   SpecCache       one client of a CacheService calling set, get and     *)
(*                   delete on a key while time passes;                    *)
(*                   SpecCacheConcurrent has two clients.                  *)
(*   SpecBreaker     one thread calling a CircuitBreaker while time        *)
(*                   passes; SpecBreakerConcurrent has two threads.        *)
(*                                                                         *)
(* Numbers.  The engine computes in f64.  The engine specification draws   *)
(* its inputs from the requests whose every intermediate value is a small  *)
(* integer: on those f64 arithmetic is exact, so the integer arithmetic    *)
(* below is the arithmetic of the code.  The colour mapper's              *)
(* (t * k) as u8 is modelled with the one rounding case in which f64       *)
(* differs from the exact quotient (see MulTrunc).                         *)
(***************************************************************************)
EXTENDS Integers, Sequences, FiniteSets, TLC

VARIABLES
    pc,         \* engine call: "idle", "computing" or "done"
    kind,       \* "mandelbrot" or "julia": the service method called
    request,    \* the FractalRequest given to the service method
    cparam,     \* the argument c of generate_julia (unused by generate_mandelbrot)
    threads,    \* size of the worker pool
    busy,       \* pixels a worker has taken and not yet finished
    pix,        \* finished pixels: <<x, y>> -> [iterations, colour]
    evals,      \* number of evaluator invocations of this call
    rowvec,     \* collected rows: y -> sequence of colours (inner collect)
    response,   \* the FractalResponse returned, or NoResponse
    prev_data,  \* buffer of the previous call with the same request, or <<>>
    api,        \* state of the callers (SpecApi)
    conc,       \* engine calls in flight at the same time (SpecConcurrent)
    util,       \* last application of a pure function (SpecFunctions)
    retry,      \* a run of async_utils::retry_with_backoff (SpecRetry)
    collector,  \* MetricsCollector counters and the tasks using them (SpecMetrics)
    limiter,    \* a RateLimiter, its clock and the threads calling it (SpecLimiter)
    cache,      \* the Redis keyspace and the tasks calling a CacheService (SpecCache)
    breaker,    \* a CircuitBreaker and the tasks calling it (SpecBreaker)
    backoff     \* a run of utils::retry_with_backoff (SpecBackoff)

engine_vars == <<pc, kind, request, cparam, threads, busy, pix, evals,
                 rowvec, response, prev_data>>
aux_vars == <<conc, util, retry, collector, limiter, cache, breaker, backoff>>
vars == <<pc, kind, request, cparam, threads, busy, pix, evals,
          rowvec, response, prev_data, api, conc, util, retry, collector,
          limiter, cache, breaker, backoff>>

----------------------------------------------------------------------------
(* Bounds of the model *)

\* largest worker pool
MaxThreads == 2
\* iteration caps 0..SmallIter are drawn besides MIN_ITERATIONS
SmallIter == 2

----------------------------------------------------------------------------
(* Program constants *)

MIN_DIM == 64
MAX_DIM == 4096
MIN_ITERATIONS == 50
MAX_ITERATIONS == 10000
ESCAPE_RADIUS_SQR == 4
ALPHA_OPAQUE == 255
RED_SCALE == 30
GREEN_SCALE == 50
BLUE_SCALE == 80

----------------------------------------------------------------------------
(* Complex numbers with integer parts *)

Complex(re, im) == [re |-> re, im |-> im]

norm_sqr(z) == z.re * z.re + z.im * z.im

\* mutant: the constant is not added
SquareWithoutAdd(z, c) == Complex(z.re * z.re - z.im * z.im,
                                  z.re * z.im + z.im * z.re)

\* z * z + c
SquareAdd(z, c) == Complex(z.re * z.re - z.im * z.im + c.re,
                           z.re * z.im + z.im * z.re + c.im)

----------------------------------------------------------------------------
(* Escape-time evaluators *)

\* mutant: the escape test taken as |z|^2 >= 4
RECURSIVE MandelbrotLoopGeq(_, _, _, _)
MandelbrotLoopGeq(z, c, i, max_iterations) ==
    IF i >= max_iterations THEN max_iterations
    ELSE IF norm_sqr(z) >= ESCAPE_RADIUS_SQR THEN i
    ELSE MandelbrotLoopGeq(SquareAdd(z, c), c, i + 1, max_iterations)

RECURSIVE MandelbrotLoop(_, _, _, _)
MandelbrotLoop(z, c, i, max_iterations) ==
    IF i >= max_iterations THEN max_iterations
    ELSE IF norm_sqr(z) > ESCAPE_RADIUS_SQR THEN i
    ELSE MandelbrotLoop(SquareAdd(z, c), c, i + 1, max_iterations)

mandelbrot_iterations_geq(c, max_iterations) ==
    MandelbrotLoopGeq(Complex(0, 0), c, 0, max_iterations)

mandelbrot_iterations(c, max_iterations) ==
    MandelbrotLoop(Complex(0, 0), c, 0, max_iterations)

\* mutant: the count of the escaping iteration is one too large
RECURSIVE JuliaLoopOffByOne(_, _, _, _)
JuliaLoopOffByOne(z, c, i, max_iterations) ==
    IF i >= max_iterations THEN max_iterations
    ELSE IF norm_sqr(z) > ESCAPE_RADIUS_SQR THEN i + 1
    ELSE JuliaLoopOffByOne(SquareAdd(z, c), c, i + 1, max_iterations)

RECURSIVE JuliaLoop(_, _, _, _)
JuliaLoop(z, c, i, max_iterations) ==
    IF i >= max_iterations THEN max_iterations
    ELSE IF norm_sqr(z) > ESCAPE_RADIUS_SQR THEN i
    ELSE JuliaLoop(SquareAdd(z, c), c, i + 1, max_iterations)

julia_iterations_off_by_one(z, c, max_iterations) ==
    JuliaLoopOffByOne(z, c, 0, max_iterations)

julia_iterations(z, c, max_iterations) == JuliaLoop(z, c, 0, max_iterations)

----------------------------------------------------------------------------
(* Colour mapper *)

\* mutant: only the low four bits of the channel are kept
MulTruncFourBits(iterations, max_iterations, k) ==
    ((iterations * k) \div max_iterations) % 16

\* ((iterations as f64 / max_iterations as f64) * k) as u8 for k in 30, 50, 80
\* and 0 <= iterations < max_iterations <= 10000.  The f64 result is the exact
\* quotient truncated, except when iterations / max_iterations = 29/50 and
\* k = 50: there t * 50.0 rounds to 28.999999999999996 and the cast gives 28.
MulTrunc(iterations, max_iterations, k) ==
    IF k = 50 /\ 50 * iterations = 29 * max_iterations
    THEN 28
    ELSE (iterations * k) \div max_iterations

iteration_to_dark_color(iterations, max_iterations) ==
    IF iterations = max_iterations
    THEN <<0, 0, 0, ALPHA_OPAQUE>>
    ELSE <<MulTrunc(iterations, max_iterations, RED_SCALE),
           MulTrunc(iterations, max_iterations, GREEN_SCALE),
           MulTrunc(iterations, max_iterations, BLUE_SCALE),
           ALPHA_OPAQUE>>

----------------------------------------------------------------------------
(* Viewport mapper *)

\* scale = 4.0 / zoom
Scale(zoom) == 4 \div zoom

\* center + (p as f64 - n as f64 / 2.0) * scale / n as f64, with the halves
\* cleared: ((2p - n) * scale) / (2n)
MapCoord(p, n, center, zoom) ==
    center + ((2 * p - n) * Scale(zoom)) \div (2 * n)

\* the requests on which the mapping is exact in integers
ExactCoord(p, n, zoom) ==
    /\ 4 % zoom = 0
    /\ ((2 * p - n) * Scale(zoom)) % (2 * n) = 0

MapPixel(req, x, y) ==
    Complex(MapCoord(x, req.width, req.center_x, req.zoom),
            MapCoord(y, req.height, req.center_y, req.zoom))

----------------------------------------------------------------------------
(* Requests of the engine specification *)

Grids == {<<1, 1>>, <<1, 2>>, <<2, 2>>, <<4, 1>>}
Widths == {g[1] : g \in Grids}
Heights == {g[2] : g \in Grids}
CenterXs == {-1, 0}
CenterYs == {1, 2}
Zooms == {1, 2}
IterationCaps == (0 .. SmallIter) \cup {MIN_ITERATIONS}
JuliaConstants == {Complex(0, 1), Complex(1, -1)}

\* FractalType
Mandelbrot == [tag |-> "Mandelbrot"]
Julia(c_real, c_imag) == [tag |-> "Julia", c_real |-> c_real, c_imag |-> c_imag]

Exact(req) ==
    /\ \A x \in 0 .. req.width - 1 : ExactCoord(x, req.width, req.zoom)
    /\ \A y \in 0 .. req.height - 1 : ExactCoord(y, req.height, req.zoom)

RequestsOf(types) ==
    {req \in [width : Widths, height : Heights, center_x : CenterXs,
              center_y : CenterYs, zoom : Zooms, max_iterations : IterationCaps,
              fractal_type : types] :
        <<req.width, req.height>> \in Grids /\ Exact(req)}

MandelbrotRequests == RequestsOf({Mandelbrot})
JuliaRequests == RequestsOf({Julia(c.re, c.im) : c \in JuliaConstants})

NoRequest == [tag |-> "none"]
NoResponse == [tag |-> "none"]
NoComplex == Complex(0, 0)

Pixels(req) == (0 .. req.width - 1) \X (0 .. req.height - 1)

----------------------------------------------------------------------------
(* The engine: one call of generate_mandelbrot or generate_julia *)

\* the closure run for pixel (x, y) of generate_mandelbrot
MandelbrotPixel(req, x, y) ==
    LET c == MapPixel(req, x, y)
        iterations == mandelbrot_iterations(c, req.max_iterations)
    IN  [iterations |-> iterations,
         colour |-> iteration_to_dark_color(iterations, req.max_iterations)]

\* the closure run for pixel (x, y) of generate_julia(request, c)
JuliaPixel(req, c, x, y) ==
    LET z == MapPixel(req, x, y)
        iterations == julia_iterations(z, c, req.max_iterations)
    IN  [iterations |-> iterations,
         colour |-> iteration_to_dark_color(iterations, req.max_iterations)]

\* mutant: the column is read from a counter the workers share
PixelValueSharedCounter(k, req, c, x, y) ==
    IF k = "mandelbrot" THEN MandelbrotPixel(req, evals % req.width, y)
    ELSE JuliaPixel(req, c, evals % req.width, y)

PixelValue(k, req, c, x, y) ==
    IF k = "mandelbrot" THEN MandelbrotPixel(req, x, y) ELSE JuliaPixel(req, c, x, y)

\* the worker pool takes each index of the two ranges once
Unclaimed(p) == p \notin busy /\ p \notin DOMAIN pix

\* mutant: a row is collected as soon as one of its items is there
RowCompleteAny(y) == \E x \in 0 .. request.width - 1 : <<x, y>> \in DOMAIN pix

\* the inner map of row y has produced every item
RowComplete(y) == \A x \in 0 .. request.width - 1 : <<x, y>> \in DOMAIN pix

\* inner collect::<Vec<_>>(): the colours produced for row y, in the order of x
RECURSIVE RowFrom(_, _)
RowFrom(x, y) ==
    IF x >= request.width THEN <<>>
    ELSE IF <<x, y>> \in DOMAIN pix
         THEN <<pix[<<x, y>>].colour>> \o RowFrom(x + 1, y)
         ELSE RowFrom(x + 1, y)

\* mutant: the first item of the row is left out
CollectedRowSkipFirst(y) == RowFrom(1, y)

CollectedRow(y) == RowFrom(0, y)

\* flatten: the four bytes of each colour of a row, in order
RECURSIVE FlattenColours(_)
FlattenColours(row) ==
    IF row = <<>> THEN <<>> ELSE Head(row) \o FlattenColours(Tail(row))

\* flat_map + flatten + collect: the rows in the order of y
RECURSIVE FlattenFrom(_, _, _)
FlattenFrom(rows, y, height) ==
    IF y >= height THEN <<>>
    ELSE FlattenColours(rows[y]) \o FlattenFrom(rows, y + 1, height)

\* mutant: the rows are concatenated last row first
RECURSIVE FlattenBackFrom(_, _)
FlattenBackFrom(rows, y) ==
    IF y < 0 THEN <<>>
    ELSE FlattenColours(rows[y]) \o FlattenBackFrom(rows, y - 1)

FlattenRowsReversed(rows, height) == FlattenBackFrom(rows, height - 1)

FlattenRows(rows, height) == FlattenFrom(rows, 0, height)

StartCall(k, req, c, n) ==
    /\ pc = "idle"
    /\ pc' = "computing"
    /\ kind' = k
    /\ request' = req
    /\ cparam' = c
    /\ threads' = n
    /\ busy' = {}
    /\ pix' = <<>>
    /\ evals' = 0
    /\ rowvec' = <<>>
    /\ response' = NoResponse
    /\ prev_data' = <<>>
    /\ UNCHANGED <<api, aux_vars>>

\* a caller hands a Mandelbrot request to generate_mandelbrot
CallMandelbrot ==
    \E req \in MandelbrotRequests, n \in 1 .. MaxThreads :
        StartCall("mandelbrot", req, NoComplex, n)

\* mutant: the two parts of the constant are exchanged
JuliaArgumentSwapped(req) == Complex(req.fractal_type.c_imag, req.fractal_type.c_real)

\* the argument c a caller builds from the request's Julia constant
JuliaArgument(req) == Complex(req.fractal_type.c_real, req.fractal_type.c_imag)

\* a caller hands a Julia request and its constant to generate_julia
CallJulia ==
    \E req \in JuliaRequests, n \in 1 .. MaxThreads :
        StartCall("julia", req, JuliaArgument(req), n)

\* a free worker takes a pixel that no worker has taken
TakePixel ==
    /\ pc = "computing"
    /\ Cardinality(busy) < threads
    /\ \E p \in Pixels(request) :
        /\ Unclaimed(p)
        /\ busy' = busy \cup {p}
    /\ UNCHANGED <<pc, kind, request, cparam, threads, pix, evals, rowvec,
                   response, prev_data, api, aux_vars>>

\* a worker finishes its pixel: mapper, evaluator, colour mapper
FinishPixel ==
    /\ pc = "computing"
    /\ \E p \in busy :
        /\ busy' = busy \ {p}
        /\ pix' = pix @@ (p :> PixelValue(kind, request, cparam, p[1], p[2]))
    /\ evals' = evals + 1
    /\ UNCHANGED <<pc, kind, request, cparam, threads, rowvec, response,
                   prev_data, api, aux_vars>>

\* the inner map of a row is complete and is collected into the row's Vec
CollectRow ==
    /\ pc = "computing"
    /\ \E y \in (0 .. request.height - 1) \ DOMAIN rowvec :
        /\ RowComplete(y)
        /\ rowvec' = rowvec @@ (y :> CollectedRow(y))
    /\ UNCHANGED <<pc, kind, request, cparam, threads, busy, pix, evals,
                   response, prev_data, api, aux_vars>>

\* the join of the fan-out
AllRowsCollected == DOMAIN rowvec = 0 .. request.height - 1

\* every row is collected: the buffer is assembled and the response returned
Join ==
    /\ pc = "computing"
    /\ AllRowsCollected
    /\ response' = [tag |-> "FractalResponse",
                    data |-> FlattenRows(rowvec, request.height),
                    width |-> request.width,
                    height |-> request.height,
                    zoom_level |-> request.zoom]
    /\ pc' = "done"
    /\ UNCHANGED <<kind, request, cparam, threads, busy, pix, evals, rowvec,
                   prev_data, api, aux_vars>>

\* the caller calls once more with the identical request, on any pool size
CallAgain ==
    /\ pc = "done"
    /\ prev_data = <<>>
    /\ prev_data' = response.data
    /\ pc' = "computing"
    /\ \E n \in 1 .. MaxThreads : threads' = n
    /\ busy' = {}
    /\ pix' = <<>>
    /\ evals' = 0
    /\ rowvec' = <<>>
    /\ response' = NoResponse
    /\ UNCHANGED <<kind, request, cparam, api, aux_vars>>

\* the caller consumes the response; the engine keeps nothing of the call
Return ==
    /\ pc = "done"
    /\ pc' = "idle"
    /\ kind' = "none"
    /\ request' = NoRequest
    /\ cparam' = NoComplex
    /\ threads' = 1
    /\ busy' = {}
    /\ pix' = <<>>
    /\ evals' = 0
    /\ rowvec' = <<>>
    /\ response' = NoResponse
    /\ prev_data' = <<>>
    /\ UNCHANGED <<api, aux_vars>>

----------------------------------------------------------------------------
(* The callers (SpecApi).  Numbers here are the program's own.  An f64 is a   *)
(* record [nan, v]: centres and Julia constants in units of 0.00001, zoom as  *)
(* its decimal exponent (zoom = 10^v); both encodings keep the order of the   *)
(* values, which is all that clamp and the range validation use.              *)

F(v) == [nan |-> FALSE, v |-> v]
NaN == [nan |-> TRUE, v |-> 0]

\* 2.0, 0.1 and 1e15 in the encodings above
CENTER_BOUND == 200000
ZOOM_MIN_EXP == -1
ZOOM_MAX_EXP == 15

\* Option<T>
None == [some |-> FALSE]
Some(v) == [some |-> TRUE, v |-> v]
unwrap_or(opt, default) == IF opt.some THEN opt.v ELSE default

\* Ord::clamp on u32
clamp(v, lo, hi) == IF v < lo THEN lo ELSE IF v > hi THEN hi ELSE v

\* f64::clamp: NaN is returned as it is
clamp_f64(x, lo, hi) ==
    IF x.nan THEN x
    ELSE IF x.v < lo THEN F(lo)
    ELSE IF x.v > hi THEN F(hi)
    ELSE x

\* the request a caller builds
ApiRequest(width, height, center_x, center_y, zoom, max_iterations, fractal_type) ==
    [width |-> width, height |-> height, center_x |-> center_x,
     center_y |-> center_y, zoom |-> zoom, max_iterations |-> max_iterations,
     fractal_type |-> fractal_type]

\* range(min, max) of the validator on an integer and on an f64 field; on an
\* f64 it is membership in [lo, hi], which NaN does not have (validate() is
\* applied to requests whose fields are numbers)
InRange(v, lo, hi) == lo <= v /\ v <= hi
InRangeF64(x, lo, hi) == ~x.nan /\ lo <= x.v /\ x.v <= hi

\* the documented bound of each field of a request
WidthOk(req) == InRange(req.width, MIN_DIM, MAX_DIM)
HeightOk(req) == InRange(req.height, MIN_DIM, MAX_DIM)
CenterXOk(req) == InRangeF64(req.center_x, -CENTER_BOUND, CENTER_BOUND)
CenterYOk(req) == InRangeF64(req.center_y, -CENTER_BOUND, CENTER_BOUND)
ZoomOk(req) == InRangeF64(req.zoom, ZOOM_MIN_EXP, ZOOM_MAX_EXP)
MaxIterationsOk(req) == InRange(req.max_iterations, MIN_ITERATIONS, MAX_ITERATIONS)

\* FractalRequest::validate(): the fields whose range check fails
ValidationErrors(req) ==
    {f \in {"width", "height", "center_x", "center_y", "zoom", "max_iterations"} :
        \/ f = "width" /\ ~WidthOk(req)
        \/ f = "height" /\ ~HeightOk(req)
        \/ f = "center_x" /\ ~CenterXOk(req)
        \/ f = "center_y" /\ ~CenterYOk(req)
        \/ f = "zoom" /\ ~ZoomOk(req)
        \/ f = "max_iterations" /\ ~MaxIterationsOk(req)}

\* query parameters a client may send (an f64 parameter is parsed with
\* f64::from_str, which reads "NaN")
RawWidths == {None, Some(32), Some(64), Some(5000)}
RawHeights == {None, Some(4096), Some(4097)}
RawCenterXs == {None, Some(F(-50000)), Some(F(200000)), Some(F(250000))}
RawCenterYs == {None, Some(F(-300000))}
RawZooms == {None, Some(F(-2)), Some(F(15)), Some(F(16))}
RawIterations == {None, Some(20), Some(10000), Some(20000)}
RawJuliaParts == {None, Some(F(200001))}

MandelbrotQueries ==
    [width : RawWidths, height : RawHeights, center_x : RawCenterXs,
     center_y : RawCenterYs, zoom : RawZooms, max_iterations : RawIterations]

JuliaQueries ==
    [width : RawWidths, height : {None},
     center_x : {None, Some(F(-200001)), Some(NaN)},
     center_y : RawCenterYs, zoom : RawZooms, max_iterations : RawIterations,
     c_real : RawJuliaParts, c_imag : RawJuliaParts]

\* routes::fractals::generate_mandelbrot: defaults, clamps, the request
MandelbrotHandlerRequest(params) ==
    ApiRequest(clamp(unwrap_or(params.width, 800), 64, 4096),
               clamp(unwrap_or(params.height, 600), 64, 4096),
               clamp_f64(unwrap_or(params.center_x, F(-50000)), -CENTER_BOUND, CENTER_BOUND),
               clamp_f64(unwrap_or(params.center_y, F(0)), -CENTER_BOUND, CENTER_BOUND),
               clamp_f64(unwrap_or(params.zoom, F(0)), ZOOM_MIN_EXP, ZOOM_MAX_EXP),
               clamp(unwrap_or(params.max_iterations, 100), 50, 10000),
               Mandelbrot)

\* routes::fractals::generate_julia: defaults, clamps, the request
JuliaHandlerRequest(params) ==
    LET c_real == clamp_f64(unwrap_or(params.c_real, F(-70000)), -CENTER_BOUND, CENTER_BOUND)
        c_imag == clamp_f64(unwrap_or(params.c_imag, F(27015)), -CENTER_BOUND, CENTER_BOUND)
    IN  ApiRequest(clamp(unwrap_or(params.width, 800), 64, 4096),
                   clamp(unwrap_or(params.height, 600), 64, 4096),
                   clamp_f64(unwrap_or(params.center_x, F(0)), -CENTER_BOUND, CENTER_BOUND),
                   clamp_f64(unwrap_or(params.center_y, F(0)), -CENTER_BOUND, CENTER_BOUND),
                   clamp_f64(unwrap_or(params.zoom, F(0)), ZOOM_MIN_EXP, ZOOM_MAX_EXP),
                   clamp(unwrap_or(params.max_iterations, 100), 50, 10000),
                   Julia(c_real, c_imag))

\* the literal request of the sites that build one without parameters:
\* centre (-0.5, 0.0), zoom 1.0, Mandelbrot
FixedMandelbrot(width, height, max_iterations) ==
    ApiRequest(width, height, F(-50000), F(0), F(0), max_iterations, Mandelbrot)

\* centre (0.0, 0.0), zoom 1.0, Julia { -0.7, 0.27015 }
FixedJulia(width, height, max_iterations) ==
    ApiRequest(width, height, F(0), F(0), F(0), max_iterations,
               Julia(F(-70000), F(27015)))

EngineCall(k, req) == [kind |-> k, request |-> req]

\* routes::health::check_fractal_engine_health
RouteHealthCalls == <<EngineCall("mandelbrot", FixedMandelbrot(32, 32, 50))>>
\* ServiceRegistry::health_check
RegistryHealthCalls == <<EngineCall("mandelbrot", FixedMandelbrot(32, 32, 50))>>
\* ServiceRegistry::warm_up
WarmUpCalls == <<EngineCall("mandelbrot", FixedMandelbrot(128, 128, 100))>>
\* the fractal health check of main.rs
MainHealthCalls == <<EngineCall("mandelbrot", FixedMandelbrot(32, 32, 50))>>
\* bench_fractal_generation of lib.rs
CriterionBenchCalls == <<EngineCall("mandelbrot", FixedMandelbrot(512, 512, 100))>>
\* routes::fractals::benchmark_generation: per scenario a Mandelbrot and a Julia call
RouteBenchmarkCalls ==
    <<EngineCall("mandelbrot", FixedMandelbrot(256, 256, 100)),
      EngineCall("julia", FixedJulia(256, 256, 100)),
      EngineCall("mandelbrot", FixedMandelbrot(512, 512, 200)),
      EngineCall("julia", FixedJulia(512, 512, 200)),
      EngineCall("mandelbrot", FixedMandelbrot(1024, 1024, 400)),
      EngineCall("julia", FixedJulia(1024, 1024, 400)),
      EngineCall("mandelbrot", FixedMandelbrot(2048, 2048, 800)),
      EngineCall("julia", FixedJulia(2048, 2048, 800))>>
\* FractalService::benchmark_generation
ServiceBenchmarkCalls ==
    <<EngineCall("mandelbrot", FixedMandelbrot(512, 512, 100)),
      EngineCall("mandelbrot", FixedMandelbrot(1024, 1024, 200)),
      EngineCall("mandelbrot", FixedMandelbrot(2048, 2048, 400))>>

NoParams == [tag |-> "none"]

\* f64 values of the performance figures: the exact quotient num / den of two
\* non-negative integers, +infinity, or NaN.  Rounding moves a quotient by less
\* than one part in 2^52 and changes neither its sign nor its being finite.
Finite(num, den) == [class |-> "finite", num |-> num, den |-> den]
Infinity == [class |-> "inf"]
NotANumber == [class |-> "nan"]

\* a as f64 / b as f64 for non-negative integers
Divide(a, b) ==
    IF b # 0 THEN Finite(a, b)
    ELSE IF a = 0 THEN NotANumber
    ELSE Infinity

\* x.min(1.0): the smaller of the two, and 1.0 when x is NaN
min_one(x) ==
    IF x.class = "nan" THEN Finite(1, 1)
    ELSE IF x.class = "inf" THEN Finite(1, 1)
    ELSE IF x.num > x.den THEN Finite(1, 1)
    ELSE x

\* Duration::as_millis of an elapsed time given in microseconds
as_millis(elapsed_us) == elapsed_us \div 1000

\* (width * height) as f64 / (computation_time_ms as f64 / 1000.0), kept as
\* the quotient width * height / computation_time_ms: one thousandth of the
\* value, with its sign and finite exactly when the value is
pixels_per_second(width, height, computation_time_ms) ==
    Divide(width * height, computation_time_ms)

\* mutant: the quotient is returned as it is
calculate_parallel_efficiency_unclamped(computation_time_ms, total_pixels, cores) ==
    Divide(total_pixels, computation_time_ms * cores)

\* (total_pixels * 0.001 / (computation_time_ms / 1000.0) / cores).min(1.0),
\* that is total_pixels / (computation_time_ms * cores) capped at 1
calculate_parallel_efficiency(computation_time_ms, total_pixels, cores) ==
    min_one(Divide(total_pixels, computation_time_ms * cores))

\* times a computation may take, in microseconds, and num_cpus::get()
ElapsedMicros == {250, 1000, 600000}
Cores == {1, 8}

NoMetrics == [tag |-> "none"]

\* the figures a handler reports for the response of its request
HandlerMetrics(req, elapsed_us, cores) ==
    LET computation_time_ms == as_millis(elapsed_us)
    IN  [elapsed_us |-> elapsed_us,
         computation_time_ms |-> computation_time_ms,
         cores |-> cores,
         pixels_per_second |->
             pixels_per_second(req.width, req.height, computation_time_ms),
         parallel_efficiency |->
             calculate_parallel_efficiency(computation_time_ms,
                                           req.width * req.height, cores)]

\* api: the site that is running, the parameters it was given, the calls it
\* makes, the index of the call the engine is computing or has returned, and
\* how the last step ended
ApiIdle ==
    [site |-> "none", stage |-> "idle", params |-> NoParams, calls |-> <<>>,
     step |-> 0, outcome |-> "none", errors |-> {}, buffers |-> 0,
     performance_metrics |-> NoMetrics]

\* a site builds its first request and hands it to the engine
StartSite(site, params, calls) ==
    /\ api.stage = "idle"
    /\ api' = [site |-> site, stage |-> "engine", params |-> params,
               calls |-> calls, step |-> 1, outcome |-> "none", errors |-> {},
               buffers |-> 0, performance_metrics |-> NoMetrics]
    /\ UNCHANGED <<engine_vars, aux_vars>>

GenerateMandelbrotHandler ==
    \E params \in MandelbrotQueries :
        StartSite("mandelbrot_handler", params,
                  <<EngineCall("mandelbrot", MandelbrotHandlerRequest(params))>>)

GenerateJuliaHandler ==
    \E params \in JuliaQueries :
        StartSite("julia_handler", params,
                  <<EngineCall("julia", JuliaHandlerRequest(params))>>)

BenchmarkHandler == StartSite("route_benchmark", NoParams, RouteBenchmarkCalls)
ServiceBenchmark == StartSite("service_benchmark", NoParams, ServiceBenchmarkCalls)
CheckFractalEngineHealth == StartSite("route_health", NoParams, RouteHealthCalls)
RegistryHealthCheck == StartSite("registry_health", NoParams, RegistryHealthCalls)
RegistryWarmUp == StartSite("registry_warm_up", NoParams, WarmUpCalls)
MainHealthCheck == StartSite("main_health", NoParams, MainHealthCalls)
CriterionBench == StartSite("criterion_bench", NoParams, CriterionBenchCalls)

\* generate_mandelbrot / generate_julia return a FractalResponse: they have no
\* other way to end.  The two handlers then compute the performance figures
\* from the time the response reports.
EngineReturns ==
    /\ api.stage = "engine"
    /\ \E elapsed_us \in ElapsedMicros, cores \in Cores :
        api' = [api EXCEPT
                   !.stage = "returned", !.outcome = "buffer", !.buffers = @ + 1,
                   !.performance_metrics =
                       IF api.site \in {"mandelbrot_handler", "julia_handler"}
                       THEN HandlerMetrics(api.calls[api.step].request,
                                           elapsed_us, cores)
                       ELSE NoMetrics]
    /\ UNCHANGED <<engine_vars, aux_vars>>

\* a benchmark goes on to its next call
NextEngineCall ==
    /\ api.stage = "returned"
    /\ api.step < Len(api.calls)
    /\ api' = [api EXCEPT !.stage = "engine", !.step = @ + 1, !.outcome = "none",
                          !.performance_metrics = NoMetrics]
    /\ UNCHANGED <<engine_vars, aux_vars>>

\* models::fractals::FractalRequest::validate() on a request as it was given
ValidatedRequests ==
    {ApiRequest(unwrap_or(q.width, 800), unwrap_or(q.height, 600),
                unwrap_or(q.center_x, F(-50000)), unwrap_or(q.center_y, F(0)),
                unwrap_or(q.zoom, F(0)), unwrap_or(q.max_iterations, 100),
                Mandelbrot) :
        q \in MandelbrotQueries}

Validate ==
    /\ api.stage = "idle"
    /\ \E req \in ValidatedRequests :
        api' = [site |-> "validate", stage |-> "validated", params |-> req,
                calls |-> <<>>, step |-> 0,
                outcome |-> IF ValidationErrors(req) = {} THEN "valid"
                            ELSE "validation_error",
                errors |-> ValidationErrors(req), buffers |-> 0,
                performance_metrics |-> NoMetrics]
    /\ UNCHANGED <<engine_vars, aux_vars>>

\* the site is finished
SiteDone ==
    /\ api.stage \in {"returned", "validated"}
    /\ api.stage = "returned" => api.step = Len(api.calls)
    /\ api' = ApiIdle
    /\ UNCHANGED <<engine_vars, aux_vars>>

----------------------------------------------------------------------------
(* Calls in flight at the same time (SpecConcurrent).  FractalService is a    *)
(* unit struct: a call owns its request (moved in), its closures' captures   *)
(* and the Vec it collects; the calls share only rayon's global pool, whose   *)
(* workers take items of either call.                                         *)

CallIds == {1, 2}

\* requests of one or two pixels, so that two calls can be followed together
ConcurrentRequests ==
    {req \in MandelbrotRequests \cup JuliaRequests :
        /\ req.width * req.height <= 2
        /\ req.center_x = 0
        /\ req.zoom = 1
        /\ req.max_iterations = MIN_ITERATIONS}

IdleCall ==
    [pc |-> "idle", kind |-> "none", request |-> NoRequest, cparam |-> NoComplex,
     busy |-> {}, pix |-> <<>>, rowvec |-> <<>>, response |-> NoResponse,
     overlap |-> FALSE]

\* workers of the pool that are inside a closure of some call
PoolBusy == Cardinality(UNION {{<<i, p>> : p \in conc[i].busy} : i \in CallIds})

\* mutant: the request is read from a field of the service that the latest
\* caller has overwritten
CallPixelSharedRequest(i, p) ==
    LET j == CHOOSE j \in CallIds :
                /\ conc[j].pc # "idle"
                /\ \A k \in CallIds : conc[k].pc # "idle" => j >= k
    IN  PixelValue(conc[j].kind, conc[j].request, conc[j].cparam, p[1], p[2])

\* the closure of call i run for pixel p: it reads the call's own captures
CallPixel(i, p) ==
    PixelValue(conc[i].kind, conc[i].request, conc[i].cparam, p[1], p[2])

\* inner collect of row y of a call
RECURSIVE CallRowFrom(_, _, _)
CallRowFrom(call, x, y) ==
    IF x >= call.request.width THEN <<>>
    ELSE <<call.pix[<<x, y>>].colour>> \o CallRowFrom(call, x + 1, y)

CallRowComplete(call, y) ==
    \A x \in 0 .. call.request.width - 1 : <<x, y>> \in DOMAIN call.pix

ConcurrentStart(i, k, req, c) ==
    /\ conc[i].pc = "idle"
    /\ conc' = [conc EXCEPT ![i] =
                    [pc |-> "computing", kind |-> k, request |-> req,
                     cparam |-> c, busy |-> {}, pix |-> <<>>, rowvec |-> <<>>,
                     response |-> NoResponse,
                     overlap |-> \E j \in CallIds \ {i} : conc[j].pc = "computing"]]
    /\ UNCHANGED <<engine_vars, api, util, retry, collector, limiter,
                   cache, breaker, backoff>>

\* a caller calls generate_mandelbrot while other calls may be running
ConcurrentCallMandelbrot ==
    \E i \in CallIds, req \in ConcurrentRequests :
        /\ req.fractal_type = Mandelbrot
        /\ ConcurrentStart(i, "mandelbrot", req, NoComplex)

\* a caller calls generate_julia while other calls may be running
ConcurrentCallJulia ==
    \E i \in CallIds, req \in ConcurrentRequests :
        /\ req.fractal_type # Mandelbrot
        /\ ConcurrentStart(i, "julia", req, JuliaArgument(req))

\* a free worker of the shared pool takes a pixel of one of the calls
ConcurrentTakePixel ==
    /\ PoolBusy < MaxThreads
    /\ \E i \in CallIds :
        /\ conc[i].pc = "computing"
        /\ \E p \in Pixels(conc[i].request) :
            /\ p \notin conc[i].busy
            /\ p \notin DOMAIN conc[i].pix
            /\ conc' = [conc EXCEPT ![i].busy = @ \cup {p}]
    /\ UNCHANGED <<engine_vars, api, util, retry, collector, limiter,
                   cache, breaker, backoff>>

\* a worker finishes the pixel it took
ConcurrentFinishPixel ==
    /\ \E i \in CallIds :
        /\ conc[i].pc = "computing"
        /\ \E p \in conc[i].busy :
            conc' = [conc EXCEPT ![i].busy = @ \ {p},
                                 ![i].pix = @ @@ (p :> CallPixel(i, p))]
    /\ UNCHANGED <<engine_vars, api, util, retry, collector, limiter,
                   cache, breaker, backoff>>

\* a row of a call is complete and collected
ConcurrentCollectRow ==
    /\ \E i \in CallIds :
        /\ conc[i].pc = "computing"
        /\ \E y \in (0 .. conc[i].request.height - 1) \ DOMAIN conc[i].rowvec :
            /\ CallRowComplete(conc[i], y)
            /\ conc' = [conc EXCEPT ![i].rowvec =
                            @ @@ (y :> CallRowFrom(conc[i], 0, y))]
    /\ UNCHANGED <<engine_vars, api, util, retry, collector, limiter,
                   cache, breaker, backoff>>

\* a call has collected every row: its buffer is assembled and returned
ConcurrentJoin ==
    /\ \E i \in CallIds :
        /\ conc[i].pc = "computing"
        /\ DOMAIN conc[i].rowvec = 0 .. conc[i].request.height - 1
        /\ conc' = [conc EXCEPT
                        ![i].pc = "done",
                        ![i].response =
                            [tag |-> "FractalResponse",
                             data |-> FlattenRows(conc[i].rowvec,
                                                  conc[i].request.height),
                             width |-> conc[i].request.width,
                             height |-> conc[i].request.height,
                             zoom_level |-> conc[i].request.zoom]]
    /\ UNCHANGED <<engine_vars, api, util, retry, collector, limiter,
                   cache, breaker, backoff>>

\* the caller of a call consumes its response
ConcurrentReturn ==
    /\ \E i \in CallIds :
        /\ conc[i].pc = "done"
        /\ conc' = [conc EXCEPT ![i] = IdleCall]
    /\ UNCHANGED <<engine_vars, api, util, retry, collector, limiter,
                   cache, breaker, backoff>>

----------------------------------------------------------------------------
(* Pure functions applied to drawn arguments (SpecFunctions) *)

NoApplication == [op |-> "none"]

\* the zoom argument of from_parameters: a power of ten 10^exp, 0.0, a
\* negative number or NaN
PowerOfTen(exp) == [class |-> "pow10", exp |-> exp]
ZeroZoom == [class |-> "zero"]
NegativeZoom == [class |-> "negative"]
NanZoom == [class |-> "nan"]

\* f64::log10: exact on a power of ten, -infinity at 0.0, NaN below 0.0 and
\* at NaN
log10(zoom) ==
    IF zoom.class = "pow10" THEN [class |-> "finite", v |-> zoom.exp]
    ELSE IF zoom.class = "zero" THEN [class |-> "neg_inf"]
    ELSE [class |-> "nan"]

\* x.max(0.0): the larger of the two, and 0.0 when x is NaN
max_zero(x) == IF x.class = "finite" /\ x.v > 0 THEN x.v ELSE 0

\* a * b < t for integers a, b >= 0 and t >= 1, without forming a product
\* that is beyond 2^31
ProductBelow(a, b, t) == b = 0 \/ a <= (t - 1) \div b

\* mutant: the thresholds belong to the lower class
from_parameters_inclusive(width, height, iterations, zoom) ==
    LET pixel_count == width * height
        factor == iterations * max_zero(log10(zoom))
    IN  IF ProductBelow(pixel_count, factor, 1000001) THEN "Low"
        ELSE IF ProductBelow(pixel_count, factor, 10000001) THEN "Medium"
        ELSE IF ProductBelow(pixel_count, factor, 100000001) THEN "High"
        ELSE "Extreme"

\* ComputationComplexity::from_parameters.  The product pixel_count *
\* iterations * log10 stays below 2^53 and is exact in f64, and its correctly
\* rounded quotient by 1_000_000.0 is below 1.0, 10.0, 100.0 exactly when the
\* product is below 10^6, 10^7, 10^8.
from_parameters(width, height, iterations, zoom) ==
    LET pixel_count == width * height
        factor == iterations * max_zero(log10(zoom))
    IN  IF ProductBelow(pixel_count, factor, 1000000) THEN "Low"
        ELSE IF ProductBelow(pixel_count, factor, 10000000) THEN "Medium"
        ELSE IF ProductBelow(pixel_count, factor, 100000000) THEN "High"
        ELSE "Extreme"

ComplexityDims == {100, 256, 2048}
ComplexityIterations == {50, 100, 1000}
ComplexityZooms ==
    {PowerOfTen(e) : e \in {-1, 0, 1, 3, 10}}
        \cup {ZeroZoom, NegativeZoom, NanZoom}

\* from_parameters is applied
ClassifyComplexity ==
    /\ util.op = "none"
    /\ \E width \in ComplexityDims, height \in ComplexityDims,
          iterations \in ComplexityIterations, zoom \in ComplexityZooms :
        util' = [op |-> "from_parameters", width |-> width, height |-> height,
                 iterations |-> iterations, zoom |-> zoom,
                 result |-> from_parameters(width, height, iterations, zoom)]
    /\ UNCHANGED <<engine_vars, api, conc, retry, collector, limiter,
                   cache, breaker, backoff>>

\* caps for which the colour mapper is applied to every pair of counts
ColourCaps == {MIN_ITERATIONS, 100}

\* iteration_to_dark_color is applied to two counts below the same cap
MapColours ==
    /\ util.op = "none"
    /\ \E max_iterations \in ColourCaps :
       \E i1 \in 0 .. max_iterations - 1 :
       \E i2 \in i1 .. max_iterations - 1 :
        util' = [op |-> "iteration_to_dark_color",
                 max_iterations |-> max_iterations, i1 |-> i1, i2 |-> i2,
                 c1 |-> iteration_to_dark_color(i1, max_iterations),
                 c2 |-> iteration_to_dark_color(i2, max_iterations)]
    /\ UNCHANGED <<engine_vars, api, conc, retry, collector, limiter,
                   cache, breaker, backoff>>

\* plane points and caps the Mandelbrot evaluator is applied to; the largest
\* cap is drawn for the points outside the circle of radius 2
EscapePoints ==
    {Complex(2, 2), Complex(2, -2), Complex(-2, 2), Complex(3, 0),
     Complex(1, 0), Complex(-2, 0), Complex(0, 0)}
EscapeCaps == {MIN_ITERATIONS, MIN_ITERATIONS + 1, MAX_ITERATIONS}

\* mandelbrot_iterations is applied
EvaluatePoint ==
    /\ util.op = "none"
    /\ \E c \in EscapePoints, max_iterations \in EscapeCaps :
        /\ max_iterations = MAX_ITERATIONS => norm_sqr(c) > ESCAPE_RADIUS_SQR
        /\ util' = [op |-> "mandelbrot_iterations", c |-> c,
                    max_iterations |-> max_iterations,
                    result |-> mandelbrot_iterations(c, max_iterations)]
    /\ UNCHANGED <<engine_vars, api, conc, retry, collector, limiter,
                   cache, breaker, backoff>>

\* A string is the sequence of its characters (all of them ASCII here, so
\* str::len, a count of bytes, is the length of the sequence).
TestAddress ==
    <<"t", "e", "s", "t", "@", "e", "x", "a", "m", "p", "l", "e", ".", "c", "o", "m">>
InvalidEmail ==
    <<"i", "n", "v", "a", "l", "i", "d", "-", "e", "m", "a", "i", "l">>
NoLocalPart ==
    <<"@", "e", "x", "a", "m", "p", "l", "e", ".", "c", "o", "m">>

\* the addresses is_valid_email is applied to: the three of
\* test_email_validation and every string of at most MaxEmailLen characters
\* over a letter, '@' and '.'
MaxEmailLen == 7
EmailAlphabet == {"a", "@", "."}
Emails ==
    {TestAddress, InvalidEmail, NoLocalPart}
        \cup UNION {[1 .. n -> EmailAlphabet] : n \in 0 .. MaxEmailLen}

\* str::contains(char)
contains(s, ch) == \E i \in DOMAIN s : s[i] = ch

\* email.contains('@') && email.contains('.') && email.len() > 5
is_valid_email(email) ==
    contains(email, "@") /\ contains(email, ".") /\ Len(email) > 5

\* Utils::is_valid_email is applied
ValidateEmail ==
    /\ util.op = "none"
    /\ \E email \in Emails :
        util' = [op |-> "is_valid_email", email |-> email,
                 result |-> is_valid_email(email)]
    /\ UNCHANGED <<engine_vars, api, conc, retry, collector, limiter,
                   cache, breaker, backoff>>

\* the caller has used the value
ValueUsed ==
    /\ util.op # "none"
    /\ util' = NoApplication
    /\ UNCHANGED <<engine_vars, api, conc, retry, collector, limiter,
                   cache, breaker, backoff>>

----------------------------------------------------------------------------
(* Errors and the two retry functions (SpecRetry, SpecRetryFair):          *)
(* async_utils::retry_with_backoff of lib.rs and retry_with_backoff of     *)
(* utils/mod.rs                                                            *)

\* the variants of AppError
AppErrors ==
    {"DatabaseError", "ExternalApiError", "SerializationError",
     "ConfigurationError", "ValidationError", "AuthenticationError",
     "AuthorizationError", "RateLimitError", "NotFoundError", "TimeoutError",
     "InternalServerError", "BadRequestError", "ServiceUnavailableError",
     "CacheError", "FractalComputationError", "GitHubApiError",
     "PerformanceError"}

\* AppError::is_retryable, arm by arm
is_retryable(error) ==
    IF error \in {"ExternalApiError", "GitHubApiError", "TimeoutError",
                  "ServiceUnavailableError", "CacheError"} THEN TRUE
    ELSE IF error = "DatabaseError" THEN TRUE
    ELSE IF error \in {"ValidationError", "BadRequestError",
                       "AuthenticationError", "AuthorizationError",
                       "NotFoundError", "ConfigurationError"} THEN FALSE
    ELSE IF error = "RateLimitError" THEN TRUE
    ELSE FALSE

\* largest max_retries a caller passes
MaxRetries == 3

\* initial delays in milliseconds; on these Duration::mul_f32(1.5) is exact
InitialDelays == {0, 2000}

RetryIdle ==
    [pc |-> "idle", max_retries |-> 0, attempt |-> 0, delay |-> 0,
     invocations |-> 0, last_error |-> "none", result |-> "none"]

\* retry_with_backoff(operation, max_retries, initial_delay) is called; with
\* max_retries = 0 the loop has no turn and unreachable!() panics.  (One of
\* the two retry functions runs at a time.)
RetryWithBackoff ==
    /\ retry.pc = "idle"
    /\ backoff.pc = "idle"
    /\ \E max_retries \in 0 .. MaxRetries, initial_delay \in InitialDelays :
        retry' = [pc |-> IF max_retries = 0 THEN "panicked" ELSE "calling",
                  max_retries |-> max_retries, attempt |-> 0,
                  delay |-> initial_delay, invocations |-> 0,
                  last_error |-> "none",
                  result |-> IF max_retries = 0 THEN "panic" ELSE "none"]
    /\ UNCHANGED <<engine_vars, api, conc, util, collector, limiter,
                   cache, breaker, backoff>>

\* operation().await gives Ok: it is returned
OperationSucceeds ==
    /\ retry.pc = "calling"
    /\ retry' = [retry EXCEPT !.pc = "returned", !.invocations = @ + 1,
                              !.result = "Ok"]
    /\ UNCHANGED <<engine_vars, api, conc, util, collector, limiter,
                   cache, breaker, backoff>>

\* operation().await gives Err(e): returned on the last attempt, otherwise
\* the function sleeps, whatever the error is
OperationFails ==
    /\ retry.pc = "calling"
    /\ \E e \in AppErrors :
        retry' = [retry EXCEPT
                     !.invocations = @ + 1,
                     !.last_error = e,
                     !.pc = IF retry.attempt = retry.max_retries - 1
                            THEN "returned" ELSE "sleeping",
                     !.result = IF retry.attempt = retry.max_retries - 1
                                THEN e ELSE "none"]
    /\ UNCHANGED <<engine_vars, api, conc, util, collector, limiter,
                   cache, breaker, backoff>>

\* sleep(delay) is over; delay = delay.mul_f32(1.5); the next attempt
BackoffElapsed ==
    /\ retry.pc = "sleeping"
    /\ retry' = [retry EXCEPT !.pc = "calling", !.attempt = @ + 1,
                              !.delay = (@ * 3) \div 2]
    /\ UNCHANGED <<engine_vars, api, conc, util, collector, limiter,
                   cache, breaker, backoff>>

\* the caller has the result
RetryFinished ==
    /\ retry.pc \in {"returned", "panicked"}
    /\ retry' = RetryIdle
    /\ UNCHANGED <<engine_vars, api, conc, util, collector, limiter,
                   cache, breaker, backoff>>

(* retry_with_backoff(operation, RetryConfig) of utils/mod.rs (SpecRetry) *)

\* largest max_attempts of a RetryConfig
MaxAttempts == 3

\* initial_delay and max_delay in milliseconds (100 and 30000 are the
\* defaults), and the multiplier in halves (4 is the default 2.0, 3 is 1.5):
\* on these the f64 product is exact
ConfigInitialDelays == {0, 100}
ConfigMaxDelays == {150, 30000}
ConfigMultipliers == {3, 4}
OperationErrors == {"TimeoutError", "CacheError"}

BackoffIdle ==
    [pc |-> "idle", max_attempts |-> 0, attempt |-> 0, current_delay |-> 0,
     max_delay |-> 0, multiplier |-> 0, invocations |-> 0, sleeps |-> 0,
     last_error |-> "none", result |-> "none"]

\* the loop gives up one attempt late
is_after_last_attempt(attempt, max_attempts) == attempt = max_attempts + 1

\* attempt == config.max_attempts
is_last_attempt(attempt, max_attempts) == attempt = max_attempts

\* Duration::from_millis((current_delay.as_millis() as f64 * multiplier) as u64)
\*     .min(config.max_delay)
next_delay(current_delay, multiplier, max_delay) ==
    LET product == (current_delay * multiplier) \div 2
    IN  IF product < max_delay THEN product ELSE max_delay

\* retry_with_backoff(operation, config) is called; for attempt in
\* 1..=config.max_attempts has no turn when max_attempts = 0, and
\* unreachable!() panics
UtilsRetryWithBackoff ==
    /\ backoff.pc = "idle"
    /\ retry.pc = "idle"
    /\ \E max_attempts \in 0 .. MaxAttempts,
          initial_delay \in ConfigInitialDelays,
          max_delay \in ConfigMaxDelays, multiplier \in ConfigMultipliers :
        backoff' = [BackoffIdle EXCEPT
                       !.pc = IF max_attempts = 0 THEN "panicked" ELSE "calling",
                       !.max_attempts = max_attempts,
                       !.attempt = 1,
                       !.current_delay = initial_delay,
                       !.max_delay = max_delay,
                       !.multiplier = multiplier,
                       !.result = IF max_attempts = 0 THEN "panic" ELSE "none"]
    /\ UNCHANGED <<engine_vars, api, conc, util, retry, collector, limiter,
                   cache, breaker>>

\* operation().await gives Ok(result): return Ok(result)
AttemptSucceeds ==
    /\ backoff.pc = "calling"
    /\ backoff' = [backoff EXCEPT !.pc = "returned", !.invocations = @ + 1,
                                  !.result = "Ok"]
    /\ UNCHANGED <<engine_vars, api, conc, util, retry, collector, limiter,
                   cache, breaker>>

\* operation().await gives Err(error): returned on the last attempt,
\* otherwise the function sleeps for current_delay
AttemptFails ==
    /\ backoff.pc = "calling"
    /\ \E error \in OperationErrors :
        LET last == is_last_attempt(backoff.attempt, backoff.max_attempts)
        IN  backoff' = [backoff EXCEPT
                           !.invocations = @ + 1,
                           !.last_error = error,
                           !.pc = IF last THEN "returned" ELSE "sleeping",
                           !.result = IF last THEN error ELSE "none"]
    /\ UNCHANGED <<engine_vars, api, conc, util, retry, collector, limiter,
                   cache, breaker>>

\* tokio::time::sleep(current_delay) is over; the delay grows up to
\* max_delay; the next attempt
SleepElapsed ==
    /\ backoff.pc = "sleeping"
    /\ backoff' = [backoff EXCEPT
                       !.pc = "calling",
                       !.sleeps = @ + 1,
                       !.attempt = @ + 1,
                       !.current_delay = next_delay(@, backoff.multiplier,
                                                    backoff.max_delay)]
    /\ UNCHANGED <<engine_vars, api, conc, util, retry, collector, limiter,
                   cache, breaker>>

\* the caller has the result
UtilsRetryFinished ==
    /\ backoff.pc \in {"returned", "panicked"}
    /\ backoff' = BackoffIdle
    /\ UNCHANGED <<engine_vars, api, conc, util, retry, collector, limiter,
                   cache, breaker>>

----------------------------------------------------------------------------
(* MetricsCollector counters (SpecMetrics).  A task is an async caller of    *)
(* add_to_counter; the section under the read lock and the section under the *)
(* write lock are each one step, the locks excluding one another.            *)

Tasks == {1, 2}

\* calls issued in a run
MaxCalls == 3

\* the values given to add_to_counter
Amounts == {2, 5}

CounterName == "test_counter"

IdleTask == [pc |-> "idle", name |-> "none", value |-> 0]

\* MetricsCollector::new(): no counter; issued and total keep the number of
\* calls begun and the sum of the values of the calls completed
NewCollector ==
    [counters |-> <<>>, tasks |-> [t \in Tasks |-> IdleTask], issued |-> 0,
     total |-> 0]

BeginAdd(t, name, value) ==
    /\ collector.tasks[t].pc = "idle"
    /\ collector.issued < MaxCalls
    /\ collector' = [collector EXCEPT
                        !.tasks[t] = [pc |-> "lookup", name |-> name,
                                      value |-> value],
                        !.issued = @ + 1]
    /\ UNCHANGED <<engine_vars, api, conc, util, retry, limiter,
                   cache, breaker, backoff>>

\* increment_counter(name) is add_to_counter(name, 1)
IncrementCounter == \E t \in Tasks : BeginAdd(t, CounterName, 1)

AddToCounter == \E t \in Tasks, value \in Amounts : BeginAdd(t, CounterName, value)

\* under the read lock the counter is found: it is locked and added to
UpdateCounter ==
    /\ \E t \in Tasks :
        LET task == collector.tasks[t]
        IN  /\ task.pc = "lookup"
            /\ task.name \in DOMAIN collector.counters
            /\ collector' = [collector EXCEPT
                                !.counters[task.name] = @ + task.value,
                                !.tasks[t] = IdleTask,
                                !.total = @ + task.value]
    /\ UNCHANGED <<engine_vars, api, conc, util, retry, limiter,
                   cache, breaker, backoff>>

\* under the read lock the counter is not found: the read lock is dropped
MissCounter ==
    /\ \E t \in Tasks :
        LET task == collector.tasks[t]
        IN  /\ task.pc = "lookup"
            /\ task.name \notin DOMAIN collector.counters
            /\ collector' = [collector EXCEPT !.tasks[t].pc = "insert"]
    /\ UNCHANGED <<engine_vars, api, conc, util, retry, limiter,
                   cache, breaker, backoff>>

\* under the write lock: Counter::new(), add(value), HashMap::insert, which
\* replaces an entry of the same name
InsertCounter ==
    /\ \E t \in Tasks :
        LET task == collector.tasks[t]
        IN  /\ task.pc = "insert"
            /\ collector' = [collector EXCEPT
                                !.counters =
                                    [n \in DOMAIN @ \cup {task.name} |->
                                        IF n = task.name THEN 0 + task.value
                                        ELSE @[n]],
                                !.tasks[t] = IdleTask,
                                !.total = @ + task.value]
    /\ UNCHANGED <<engine_vars, api, conc, util, retry, limiter,
                   cache, breaker, backoff>>

----------------------------------------------------------------------------
(* RateLimiter (SpecLimiter).  Time is a clock of whole ticks; is_allowed and *)
(* remaining_requests read Instant::now() and then wait for the mutex, so a   *)
(* thread decides with the instant it read before it had the lock.            *)

LimiterThreads == {1, 2}

\* largest max_requests, and the last tick of the clock
MaxRequests == 2
MaxTime == 4

\* window lengths in ticks
LimiterWindows == {2, 3}

IdleThread == [pc |-> "idle", op |-> "none", now |-> 0]

NoLimiter ==
    [live |-> FALSE, max_requests |-> 0, window |-> 0, requests |-> <<>>,
     now |-> 0, threads |-> [t \in LimiterThreads |-> IdleThread],
     log |-> <<>>, last |-> [op |-> "none"]]

\* now.duration_since(request_time), which is zero for a later request_time
duration_since(now, request_time) ==
    IF now >= request_time THEN now - request_time ELSE 0

\* requests.retain(|t| now.duration_since(t) < window)
RECURSIVE retain(_, _, _)
retain(requests, now, window) ==
    IF requests = <<>> THEN <<>>
    ELSE IF duration_since(now, Head(requests)) < window
         THEN <<Head(requests)>> \o retain(Tail(requests), now, window)
         ELSE retain(Tail(requests), now, window)

\* mutant: a full list still admits a request
has_capacity_inclusive(requests, max_requests) == Len(requests) <= max_requests

\* requests.len() < max_requests
has_capacity(requests, max_requests) == Len(requests) < max_requests

\* the allowed calls of the log that began less than window before the clock
Recent(log, clock, window) ==
    {k \in DOMAIN log : clock - log[k] < window}

RECURSIVE KeepRecent(_, _, _)
KeepRecent(log, clock, window) ==
    IF log = <<>> THEN <<>>
    ELSE IF clock - Head(log) < window
         THEN <<Head(log)>> \o KeepRecent(Tail(log), clock, window)
         ELSE KeepRecent(Tail(log), clock, window)

\* RateLimiter::new(max_requests, window)
RateLimiterNew ==
    /\ ~limiter.live
    /\ \E max_requests \in 1 .. MaxRequests, window \in LimiterWindows :
        limiter' = [NoLimiter EXCEPT !.live = TRUE,
                                     !.max_requests = max_requests,
                                     !.window = window]
    /\ UNCHANGED <<engine_vars, api, conc, util, retry, collector,
                   cache, breaker, backoff>>

\* time passes; the log keeps the allowed calls that began within the window
Tick ==
    /\ limiter.live
    /\ limiter.now < MaxTime
    /\ limiter' = [limiter EXCEPT
                      !.now = @ + 1,
                      !.log = KeepRecent(@, limiter.now + 1, limiter.window)]
    /\ UNCHANGED <<engine_vars, api, conc, util, retry, collector,
                   cache, breaker, backoff>>

\* a thread enters is_allowed or remaining_requests and reads Instant::now()
ReadInstant(t, op) ==
    /\ limiter.live
    /\ limiter.threads[t].pc = "idle"
    /\ limiter' = [limiter EXCEPT
                      !.threads[t] = [pc |-> "stamped", op |-> op,
                                      now |-> limiter.now]]
    /\ UNCHANGED <<engine_vars, api, conc, util, retry, collector,
                   cache, breaker, backoff>>

IsAllowedEnter == \E t \in LimiterThreads : ReadInstant(t, "is_allowed")

RemainingRequestsEnter ==
    \E t \in LimiterThreads : ReadInstant(t, "remaining_requests")

\* is_allowed with the mutex held: retain, then push and true, or false
IsAllowed ==
    /\ \E t \in LimiterThreads :
        LET thread == limiter.threads[t]
            kept == retain(limiter.requests, thread.now, limiter.window)
            allowed == has_capacity(kept, limiter.max_requests)
        IN  /\ thread.pc = "stamped"
            /\ thread.op = "is_allowed"
            /\ limiter' = [limiter EXCEPT
                   !.requests = IF allowed THEN Append(kept, thread.now)
                                ELSE kept,
                   !.threads[t] = IdleThread,
                   !.log = IF allowed THEN Append(@, thread.now) ELSE @,
                   !.last = [op |-> "is_allowed", result |-> allowed,
                             recent |-> Cardinality(Recent(limiter.log,
                                                           limiter.now,
                                                           limiter.window))]]
    /\ UNCHANGED <<engine_vars, api, conc, util, retry, collector,
                   cache, breaker, backoff>>

\* remaining_requests with the mutex held: retain, then
\* max_requests.saturating_sub(len)
RemainingRequests ==
    /\ \E t \in LimiterThreads :
        LET thread == limiter.threads[t]
            kept == retain(limiter.requests, thread.now, limiter.window)
        IN  /\ thread.pc = "stamped"
            /\ thread.op = "remaining_requests"
            /\ limiter' = [limiter EXCEPT
                   !.requests = kept,
                   !.threads[t] = IdleThread,
                   !.last = [op |-> "remaining_requests",
                             result |-> IF limiter.max_requests >= Len(kept)
                                        THEN limiter.max_requests - Len(kept)
                                        ELSE 0]]
    /\ UNCHANGED <<engine_vars, api, conc, util, retry, collector,
                   cache, breaker, backoff>>

----------------------------------------------------------------------------
(* CacheService over Redis (SpecCache, SpecCacheConcurrent)                *)
(*                                                                         *)
(* services/cache_service.rs.  The Redis server is taken to be reachable:  *)
(* get_connection succeeds and changes nothing of the keyspace.  One key   *)
(* is followed; build_key prefixes the key, so calls on other keys touch   *)
(* other Redis keys.  A call is a sequence of steps, one per Redis command *)
(* it awaits; Redis executes each command atomically.  Time is counted in  *)
(* whole seconds, for current_timestamp and for the Redis expiry alike.    *)
(* A key whose time to live has run out is no longer seen by any command.  *)

CacheClients == {1}
ConcurrentClients == {1, 2}
CacheValues == {"v1", "v2"}
DEFAULT_TTL == 3600
TtlArguments == {None, Some(0), Some(2)}
MaxCacheCalls == 3
MaxCacheTime == 3
NoDeadline == -1

Ok(v) == [ok |-> TRUE, value |-> v]
Err(e) == [ok |-> FALSE, error |-> e]

NoKey == [present |-> FALSE]
NoEntry == [data |-> "none"]

\* a client task: the call it is in, its place in it, its locals (now is the
\* timestamp a set reads, at the time of a get's GET) and its result
IdleClient ==
    [pc |-> "idle", op |-> "none", value |-> "none", ttl |-> 0, now |-> 0,
     entry |-> NoEntry, at |-> 0, result |-> "none"]

\* an empty keyspace and no call; calls counts the calls begun, previous is
\* the call that returned last, written the last SETEX / DEL sent by a set or
\* delete
EmptyCache ==
    [key |-> NoKey, now |-> 0, clients |-> [t \in ConcurrentClients |-> IdleClient],
     calls |-> 0, previous |-> IdleClient, written |-> [op |-> "none"]]

\* the entry written without its time to live: it expires when it is created
NewEntryWithoutTtl(value, now, ttl) ==
    [data |-> value, created_at |-> now, expires_at |-> now,
     access_count |-> 0, last_accessed |-> now, version |-> 1]

\* CacheEntry { data: value, created_at: now, expires_at: now + ttl, ... }
NewEntry(value, now, ttl) ==
    [data |-> value, created_at |-> now, expires_at |-> now + ttl,
     access_count |-> 0, last_accessed |-> now, version |-> 1]

\* now > entry.expires_at
is_expired(now, entry) == now > entry.expires_at

\* entry.access_count += 1; entry.last_accessed = now
Accessed(entry, now) ==
    [entry EXCEPT !.access_count = @ + 1, !.last_accessed = now]

\* what a Redis command finds under the key at the time `clock`
Stored(clock) ==
    IF cache.key.present
       /\ (cache.key.deadline = NoDeadline \/ clock < cache.key.deadline)
    THEN cache.key
    ELSE NoKey

Returned(t, result) ==
    [cache.clients[t] EXCEPT !.pc = "done", !.result = result]

\* time passes
CacheClockTick ==
    /\ cache.now < MaxCacheTime
    /\ cache' = [cache EXCEPT !.now = @ + 1]
    /\ UNCHANGED <<engine_vars, api, conc, util, retry, collector, limiter,
                   breaker, backoff>>

\* set(key, value, ttl_seconds) up to its Redis command: ttl, now and the
\* entry are computed, then the connection is awaited
CacheSet(t) ==
    /\ cache.clients[t].pc = "idle"
    /\ cache.calls < MaxCacheCalls
    /\ \E value \in CacheValues, ttl_seconds \in TtlArguments :
        LET ttl == unwrap_or(ttl_seconds, DEFAULT_TTL)
        IN  cache' = [cache EXCEPT
                !.calls = @ + 1,
                !.clients[t] = [IdleClient EXCEPT
                                   !.pc = "set_ex", !.op = "set",
                                   !.value = value, !.ttl = ttl,
                                   !.now = cache.now,
                                   !.entry = NewEntry(value, cache.now, ttl)]]
    /\ UNCHANGED <<engine_vars, api, conc, util, retry, collector, limiter,
                   breaker, backoff>>

\* conn.set_ex(&full_key, serialized, ttl): Redis refuses a time to live of 0
\* ("invalid expire time"), which set returns as a CacheError; otherwise the
\* key holds the entry and expires ttl seconds after the command
RedisSetEx(t) ==
    /\ cache.clients[t].pc = "set_ex"
    /\ LET c == cache.clients[t]
       IN  IF c.ttl = 0
           THEN cache' = [cache EXCEPT !.clients[t] = Returned(t, Err("CacheError"))]
           ELSE cache' = [cache EXCEPT
                    !.key = [present |-> TRUE, entry |-> c.entry,
                             deadline |-> cache.now + c.ttl],
                    !.written = [op |-> "set", data |-> c.value,
                                 expires_at |-> c.entry.expires_at],
                    !.clients[t] = Returned(t, Ok("unit"))]
    /\ UNCHANGED <<engine_vars, api, conc, util, retry, collector, limiter,
                   breaker, backoff>>

\* get(key) up to its first Redis command
CacheGet(t) ==
    /\ cache.clients[t].pc = "idle"
    /\ cache.calls < MaxCacheCalls
    /\ cache' = [cache EXCEPT !.calls = @ + 1,
                              !.clients[t] = [IdleClient EXCEPT
                                                 !.pc = "get", !.op = "get"]]
    /\ UNCHANGED <<engine_vars, api, conc, util, retry, collector, limiter,
                   breaker, backoff>>

\* conn.get(&full_key) and what follows it without an await: a miss returns
\* None; a hit reads the clock, and either finds the entry expired or updates
\* the access metadata of its copy of the entry.  Every entry under the key
\* was written by set or get, so it deserializes.
RedisGet(t) ==
    /\ cache.clients[t].pc = "get"
    /\ LET found == Stored(cache.now)
           now == cache.now
       IN  IF ~found.present
           THEN cache' = [cache EXCEPT
                    !.clients[t] = [Returned(t, Ok(None)) EXCEPT !.at = now]]
           ELSE IF is_expired(now, found.entry)
           THEN cache' = [cache EXCEPT
                    !.clients[t] = [@ EXCEPT !.pc = "del_expired", !.at = now]]
           ELSE cache' = [cache EXCEPT
                    !.clients[t] = [@ EXCEPT
                                       !.pc = "write_back", !.at = now,
                                       !.entry = Accessed(found.entry, now)]]
    /\ UNCHANGED <<engine_vars, api, conc, util, retry, collector, limiter,
                   breaker, backoff>>

\* let _ = self.delete(key).await; return Ok(None): the expired entry is
\* deleted, whatever the key holds by now
RedisDelExpired(t) ==
    /\ cache.clients[t].pc = "del_expired"
    /\ cache' = [cache EXCEPT !.key = NoKey,
                              !.clients[t] = Returned(t, Ok(None))]
    /\ UNCHANGED <<engine_vars, api, conc, util, retry, collector, limiter,
                   breaker, backoff>>

\* conn.set(&full_key, updated_data): the copy read by this call is written
\* back with a plain SET, which also clears the key's time to live; then
\* Ok(Some(entry.data))
RedisSetMetadata(t) ==
    /\ cache.clients[t].pc = "write_back"
    /\ LET c == cache.clients[t]
       IN  cache' = [cache EXCEPT
                !.key = [present |-> TRUE, entry |-> c.entry,
                         deadline |-> NoDeadline],
                !.clients[t] = Returned(t, Ok(Some(c.entry.data)))]
    /\ UNCHANGED <<engine_vars, api, conc, util, retry, collector, limiter,
                   breaker, backoff>>

\* delete(key) up to its Redis command
CacheDelete(t) ==
    /\ cache.clients[t].pc = "idle"
    /\ cache.calls < MaxCacheCalls
    /\ cache' = [cache EXCEPT !.calls = @ + 1,
                              !.clients[t] = [IdleClient EXCEPT
                                                 !.pc = "del", !.op = "delete"]]
    /\ UNCHANGED <<engine_vars, api, conc, util, retry, collector, limiter,
                   breaker, backoff>>

\* conn.del(&full_key), Ok(deleted > 0)
RedisDel(t) ==
    /\ cache.clients[t].pc = "del"
    /\ cache' = [cache EXCEPT
            !.key = NoKey,
            !.written = [op |-> "delete"],
            !.clients[t] = Returned(t, Ok(Stored(cache.now).present))]
    /\ UNCHANGED <<engine_vars, api, conc, util, retry, collector, limiter,
                   breaker, backoff>>

\* the caller has the result of its call
CacheReturn(t) ==
    /\ cache.clients[t].pc = "done"
    /\ cache' = [cache EXCEPT !.previous = cache.clients[t],
                              !.clients[t] = IdleClient]
    /\ UNCHANGED <<engine_vars, api, conc, util, retry, collector, limiter,
                   breaker, backoff>>


----------------------------------------------------------------------------
(* CircuitBreaker (SpecBreaker, SpecBreakerConcurrent)                     *)
(*                                                                         *)
(* utils/mod.rs.  In the first block of call the guard of the state mutex  *)
(* is bound to current_state_guard while the match reads and assigns       *)
(* *state; the model takes state there to be that guard.  A step of a call *)
(* is the acquisition of one mutex (which waits while another thread holds *)
(* it) together with what follows it up to the next acquisition.  Time is  *)
(* counted in whole ticks of Instant.                                      *)

BreakerCallers == {1}
ConcurrentCallers == {1, 2}
MaxThreshold == 2
BreakerTimeouts == {1, 2}
MaxBreakerCalls == 4
MaxBreakerTime == 3
Free == 0

IdleCaller ==
    [pc |-> "idle", seen |-> "none", elapsed |-> 0, invoked |-> FALSE,
     result |-> "none"]

\* no breaker yet.  locks gives the thread holding each mutex; calls counts
\* the calls begun and consecutive the operations that failed since the last
\* one that succeeded
NewBreaker ==
    [live |-> FALSE, failure_threshold |-> 0, timeout |-> 0,
     state |-> "Closed", failure_count |-> 0, last_failure_time |-> None,
     locks |-> [state |-> Free, failure_count |-> Free,
                last_failure_time |-> Free],
     now |-> 0, callers |-> [t \in ConcurrentCallers |-> IdleCaller],
     calls |-> 0, consecutive |-> 0]

\* the breaker lets a call through as soon as the timeout is reached
timeout_reached(elapsed, timeout) == elapsed >= timeout

\* Instant::now().duration_since(last_failure) > self.timeout
timeout_elapsed(elapsed, timeout) == elapsed > timeout

\* CircuitBreaker::new(failure_threshold, timeout)
CircuitBreakerNew ==
    /\ ~breaker.live
    /\ \E failure_threshold \in 0 .. MaxThreshold, timeout \in BreakerTimeouts :
        breaker' = [breaker EXCEPT !.live = TRUE,
                                   !.failure_threshold = failure_threshold,
                                   !.timeout = timeout]
    /\ UNCHANGED <<engine_vars, api, conc, util, retry, collector, limiter,
                   cache, backoff>>

\* time passes
BreakerClockTick ==
    /\ breaker.live
    /\ breaker.now < MaxBreakerTime
    /\ breaker' = [breaker EXCEPT !.now = @ + 1]
    /\ UNCHANGED <<engine_vars, api, conc, util, retry, collector, limiter,
                   cache, backoff>>

\* a thread calls call(operation)
BreakerCall(t) ==
    /\ breaker.live
    /\ breaker.callers[t].pc = "idle"
    /\ breaker.calls < MaxBreakerCalls
    /\ breaker' = [breaker EXCEPT
            !.calls = @ + 1,
            !.callers[t] = [IdleCaller EXCEPT !.pc = "lock_state"]]
    /\ UNCHANGED <<engine_vars, api, conc, util, retry, collector, limiter,
                   cache, backoff>>

\* self.state.lock()
LockState(t) ==
    /\ breaker.callers[t].pc = "lock_state"
    /\ breaker.locks.state = Free
    /\ breaker' = [breaker EXCEPT !.locks.state = t,
                                  !.callers[t].pc = "lock_failure_count"]
    /\ UNCHANGED <<engine_vars, api, conc, util, retry, collector, limiter,
                   cache, backoff>>

\* self.failure_count.lock(), the state mutex held
LockFailureCount(t) ==
    /\ breaker.callers[t].pc = "lock_failure_count"
    /\ breaker.locks.failure_count = Free
    /\ breaker' = [breaker EXCEPT !.locks.failure_count = t,
                                  !.callers[t].pc = "lock_last_failure_time"]
    /\ UNCHANGED <<engine_vars, api, conc, util, retry, collector, limiter,
                   cache, backoff>>

\* self.last_failure_time.lock() and the match on the state: an Open breaker
\* whose last failure is more than timeout ago becomes HalfOpen, an Open one
\* otherwise returns ServiceUnavailableError; the three guards are dropped
CheckState(t) ==
    /\ breaker.callers[t].pc = "lock_last_failure_time"
    /\ breaker.locks.last_failure_time = Free
    /\ LET elapsed == IF breaker.last_failure_time.some
                      THEN breaker.now - breaker.last_failure_time.v
                      ELSE 0
           seen == [breaker.callers[t] EXCEPT !.seen = breaker.state,
                                              !.elapsed = elapsed]
           unlocked == [breaker.locks EXCEPT !.state = Free,
                                             !.failure_count = Free]
       IN  IF breaker.state = "Open" /\ breaker.last_failure_time.some
           THEN IF timeout_elapsed(elapsed, breaker.timeout)
                THEN breaker' = [breaker EXCEPT
                        !.state = "HalfOpen",
                        !.locks = unlocked,
                        !.callers[t] = [seen EXCEPT !.pc = "operation"]]
                ELSE breaker' = [breaker EXCEPT
                        !.locks = unlocked,
                        !.callers[t] = [seen EXCEPT
                            !.pc = "done",
                            !.result = Err("ServiceUnavailableError")]]
           ELSE breaker' = [breaker EXCEPT
                        !.locks = unlocked,
                        !.callers[t] = [seen EXCEPT !.pc = "operation"]]
    /\ UNCHANGED <<engine_vars, api, conc, util, retry, collector, limiter,
                   cache, backoff>>

\* operation() returns Ok(result)
OperationOk(t) ==
    /\ breaker.callers[t].pc = "operation"
    /\ breaker' = [breaker EXCEPT
            !.consecutive = 0,
            !.callers[t] = [@ EXCEPT !.pc = "reset_failure_count",
                                     !.invoked = TRUE]]
    /\ UNCHANGED <<engine_vars, api, conc, util, retry, collector, limiter,
                   cache, backoff>>

\* operation() returns Err(error)
OperationErr(t) ==
    /\ breaker.callers[t].pc = "operation"
    /\ breaker' = [breaker EXCEPT
            !.consecutive = @ + 1,
            !.callers[t] = [@ EXCEPT !.pc = "fail_lock_failure_count",
                                     !.invoked = TRUE]]
    /\ UNCHANGED <<engine_vars, api, conc, util, retry, collector, limiter,
                   cache, backoff>>

\* *self.failure_count.lock().unwrap() = 0
ResetFailureCount(t) ==
    /\ breaker.callers[t].pc = "reset_failure_count"
    /\ breaker.locks.failure_count = Free
    /\ breaker' = [breaker EXCEPT !.failure_count = 0,
                                  !.callers[t].pc = "reset_state"]
    /\ UNCHANGED <<engine_vars, api, conc, util, retry, collector, limiter,
                   cache, backoff>>

\* *self.state.lock().unwrap() = CircuitState::Closed; Ok(result)
ResetState(t) ==
    /\ breaker.callers[t].pc = "reset_state"
    /\ breaker.locks.state = Free
    /\ breaker' = [breaker EXCEPT
            !.state = "Closed",
            !.callers[t] = [@ EXCEPT !.pc = "done", !.result = Ok("result")]]
    /\ UNCHANGED <<engine_vars, api, conc, util, retry, collector, limiter,
                   cache, backoff>>

\* Err arm: self.failure_count.lock()
FailLockFailureCount(t) ==
    /\ breaker.callers[t].pc = "fail_lock_failure_count"
    /\ breaker.locks.failure_count = Free
    /\ breaker' = [breaker EXCEPT !.locks.failure_count = t,
                                  !.callers[t].pc = "fail_lock_state"]
    /\ UNCHANGED <<engine_vars, api, conc, util, retry, collector, limiter,
                   cache, backoff>>

\* Err arm: self.state.lock(), the failure_count mutex held
FailLockState(t) ==
    /\ breaker.callers[t].pc = "fail_lock_state"
    /\ breaker.locks.state = Free
    /\ breaker' = [breaker EXCEPT !.locks.state = t,
                                  !.callers[t].pc = "fail_lock_last_failure_time"]
    /\ UNCHANGED <<engine_vars, api, conc, util, retry, collector, limiter,
                   cache, backoff>>

\* Err arm: self.last_failure_time.lock(); the failure is counted and timed,
\* the breaker opens at the threshold; the guards are dropped; Err(error)
RecordFailure(t) ==
    /\ breaker.callers[t].pc = "fail_lock_last_failure_time"
    /\ breaker.locks.last_failure_time = Free
    /\ breaker' = [breaker EXCEPT
            !.failure_count = @ + 1,
            !.last_failure_time = Some(breaker.now),
            !.state = IF breaker.failure_count + 1 >= breaker.failure_threshold
                      THEN "Open" ELSE @,
            !.locks = [@ EXCEPT !.state = Free, !.failure_count = Free],
            !.callers[t] = [@ EXCEPT !.pc = "done",
                                     !.result = Err("OperationError")]]
    /\ UNCHANGED <<engine_vars, api, conc, util, retry, collector, limiter,
                   cache, backoff>>

\* the caller has the result of call
BreakerReturn(t) ==
    /\ breaker.callers[t].pc = "done"
    /\ breaker' = [breaker EXCEPT !.callers[t] = IdleCaller]
    /\ UNCHANGED <<engine_vars, api, conc, util, retry, collector, limiter,
                   cache, backoff>>

Init ==
    /\ pc = "idle"
    /\ kind = "none"
    /\ request = NoRequest
    /\ cparam = NoComplex
    /\ threads = 1
    /\ busy = {}
    /\ pix = <<>>
    /\ evals = 0
    /\ rowvec = <<>>
    /\ response = NoResponse
    /\ prev_data = <<>>
    /\ api = ApiIdle
    /\ conc = [i \in CallIds |-> IdleCall]
    /\ util = NoApplication
    /\ retry = RetryIdle
    /\ collector = NewCollector
    /\ limiter = NoLimiter
    /\ cache = EmptyCache
    /\ breaker = NewBreaker
    /\ backoff = BackoffIdle

Next ==
    \/ CallMandelbrot
    \/ CallJulia
    \/ TakePixel
    \/ FinishPixel
    \/ CollectRow
    \/ Join
    \/ CallAgain
    \/ Return

Spec == Init /\ [][Next]_vars

NextApi ==
    \/ GenerateMandelbrotHandler
    \/ GenerateJuliaHandler
    \/ BenchmarkHandler
    \/ ServiceBenchmark
    \/ CheckFractalEngineHealth
    \/ RegistryHealthCheck
    \/ RegistryWarmUp
    \/ MainHealthCheck
    \/ CriterionBench
    \/ EngineReturns
    \/ NextEngineCall
    \/ Validate
    \/ SiteDone

SpecApi == Init /\ [][NextApi]_vars

NextConcurrent ==
    \/ ConcurrentCallMandelbrot
    \/ ConcurrentCallJulia
    \/ ConcurrentTakePixel
    \/ ConcurrentFinishPixel
    \/ ConcurrentCollectRow
    \/ ConcurrentJoin
    \/ ConcurrentReturn

SpecConcurrent == Init /\ [][NextConcurrent]_vars

NextFunctions ==
    \/ ClassifyComplexity
    \/ MapColours
    \/ EvaluatePoint
    \/ ValidateEmail
    \/ ValueUsed

SpecFunctions == Init /\ [][NextFunctions]_vars

NextRetry ==
    \/ RetryWithBackoff
    \/ OperationSucceeds
    \/ OperationFails
    \/ BackoffElapsed
    \/ RetryFinished
    \/ UtilsRetryWithBackoff
    \/ AttemptSucceeds
    \/ AttemptFails
    \/ SleepElapsed
    \/ UtilsRetryFinished

SpecRetry == Init /\ [][NextRetry]_vars

\* the operation's future completes and a sleep ends: the awaits of the two
\* retry loops return
RetryFairness ==
    /\ WF_vars(OperationSucceeds \/ OperationFails)
    /\ WF_vars(BackoffElapsed)
    /\ WF_vars(AttemptSucceeds \/ AttemptFails)
    /\ WF_vars(SleepElapsed)

SpecRetryFair == SpecRetry /\ RetryFairness

NextMetrics ==
    \/ IncrementCounter
    \/ AddToCounter
    \/ UpdateCounter
    \/ MissCounter
    \/ InsertCounter

SpecMetrics == Init /\ [][NextMetrics]_vars

NextLimiter ==
    \/ RateLimiterNew
    \/ Tick
    \/ IsAllowedEnter
    \/ RemainingRequestsEnter
    \/ IsAllowed
    \/ RemainingRequests

SpecLimiter == Init /\ [][NextLimiter]_vars

\* one client: its calls follow one another
NextCache ==
    \/ CacheClockTick
    \/ \E t \in CacheClients :
        \/ CacheSet(t)
        \/ RedisSetEx(t)
        \/ CacheGet(t)
        \/ RedisGet(t)
        \/ RedisDelExpired(t)
        \/ RedisSetMetadata(t)
        \/ CacheDelete(t)
        \/ RedisDel(t)
        \/ CacheReturn(t)

SpecCache == Init /\ [][NextCache]_vars

\* two clients: their calls overlap, the Redis commands interleave
NextCacheConcurrent ==
    \/ CacheClockTick
    \/ \E t \in ConcurrentClients :
        \/ CacheSet(t)
        \/ RedisSetEx(t)
        \/ CacheGet(t)
        \/ RedisGet(t)
        \/ RedisDelExpired(t)
        \/ RedisSetMetadata(t)
        \/ CacheDelete(t)
        \/ RedisDel(t)
        \/ CacheReturn(t)

SpecCacheConcurrent == Init /\ [][NextCacheConcurrent]_vars

\* one thread: its calls follow one another
NextBreaker ==
    \/ CircuitBreakerNew
    \/ BreakerClockTick
    \/ \E t \in BreakerCallers :
        \/ BreakerCall(t)
        \/ LockState(t)
        \/ LockFailureCount(t)
        \/ CheckState(t)
        \/ OperationOk(t)
        \/ OperationErr(t)
        \/ ResetFailureCount(t)
        \/ ResetState(t)
        \/ FailLockFailureCount(t)
        \/ FailLockState(t)
        \/ RecordFailure(t)
        \/ BreakerReturn(t)

SpecBreaker == Init /\ [][NextBreaker]_vars

\* two threads call the same breaker
NextBreakerConcurrent ==
    \/ CircuitBreakerNew
    \/ BreakerClockTick
    \/ \E t \in ConcurrentCallers :
        \/ BreakerCall(t)
        \/ LockState(t)
        \/ LockFailureCount(t)
        \/ CheckState(t)
        \/ OperationOk(t)
        \/ OperationErr(t)
        \/ ResetFailureCount(t)
        \/ ResetState(t)
        \/ FailLockFailureCount(t)
        \/ FailLockState(t)
        \/ RecordFailure(t)
        \/ BreakerReturn(t)

SpecBreakerConcurrent == Init /\ [][NextBreakerConcurrent]_vars

----------------------------------------------------------------------------
(* Reference definitions used by the properties *)

\* z at index j of the recurrence z <- z*z + c from z0; the orbit is held at
\* the first z with |z|^2 > 4, so "exceeds at j" reads "has exceeded by j"
RECURSIVE Orbit(_, _, _)
Orbit(z0, c, j) ==
    IF j = 0 \/ norm_sqr(z0) > 4 THEN z0
    ELSE Orbit(SquareAdd(z0, c), c, j - 1)

Exceeds(z0, c, j) == norm_sqr(Orbit(z0, c, j)) > 4

\* |z|^2 > 4 holds at none of the indices 0 .. n-1 (the orbit being held, it
\* has exceeded by n-1 exactly if it exceeds at one of them)
NeverExceedsBelow(z0, c, n) == n = 0 \/ ~Exceeds(z0, c, n - 1)

\* first index below cap at which |z|^2 > 4 holds, or cap
FirstEscape(z0, c, cap) ==
    IF ~NeverExceedsBelow(z0, c, cap)
    THEN CHOOSE j \in 0 .. cap - 1 :
            Exceeds(z0, c, j) /\ \A i \in 0 .. j - 1 : ~Exceeds(z0, c, i)
    ELSE cap

\* the buffer a single worker builds pixel by pixel, row after row
RECURSIVE SequentialFrom(_, _, _, _)
SequentialFrom(k, req, c, n) ==
    IF n >= req.width * req.height THEN <<>>
    ELSE PixelValue(k, req, c, n % req.width, n \div req.width).colour
            \o SequentialFrom(k, req, c, n + 1)

SequentialBuffer(k, req, c) == SequentialFrom(k, req, c, 0)

Black == <<0, 0, 0, 255>>

\* start value and constant of the recurrence at a pixel of the current call
StartOf(p) ==
    IF kind = "mandelbrot" THEN Complex(0, 0) ELSE MapPixel(request, p[1], p[2])
ConstantOf(p) ==
    IF kind = "mandelbrot" THEN MapPixel(request, p[1], p[2]) ELSE cparam

----------------------------------------------------------------------------
(* Properties of the engine (Spec) *)

\* C1: whatever the interleaving of the workers and the order in which rows
\* complete, the returned buffer is row-major: bytes 4*(y*W+x) .. 4*(y*W+x)+3
\* hold the colour computed for pixel (x, y), and every pixel was evaluated
\* exactly once.
C1_RowMajor ==
    pc = "done" =>
        /\ evals = request.width * request.height
        /\ \A p \in Pixels(request) : \A b \in 1 .. 4 :
              /\ 4 * (p[2] * request.width + p[1]) + b \in DOMAIN response.data
              /\ response.data[4 * (p[2] * request.width + p[1]) + b]
                    = PixelValue(kind, request, cparam, p[1], p[2]).colour[b]

C1_Witness ==
    /\ pc = "done"
    /\ threads = 2
    /\ request.width = 4
    /\ \E p, q \in Pixels(request) : pix[p].colour # pix[q].colour

\* C2: the buffer returned by generate_mandelbrot and by generate_julia has
\* exactly width*height*4 bytes.
C2_BufferSize ==
    response # NoResponse =>
        /\ Len(response.data) = request.width * request.height * 4
        /\ response.width = request.width
        /\ response.height = request.height

C2_Witness ==
    /\ response # NoResponse
    /\ kind = "julia"
    /\ request.width = 2
    /\ request.height = 2
    /\ Len(response.data) = 16

\* C3: for a fixed request the buffer is the one a single worker evaluating
\* pixel by pixel produces, on every pool size and schedule, and a second call
\* with the identical request returns the identical buffer.
C3_Deterministic ==
    pc = "done" =>
        /\ response.data = SequentialBuffer(kind, request, cparam)
        /\ prev_data # <<>> => response.data = prev_data

C3_Witness ==
    /\ pc = "done"
    /\ prev_data # <<>>
    /\ threads = 2
    /\ kind = "julia"
    /\ Cardinality(Pixels(request)) = 4
    /\ \E p, q \in Pixels(request) : pix[p].colour # pix[q].colour

\* C6: a call ends with the complete buffer or not at all: a response exists
\* only when every pixel is computed and every row collected, it is complete,
\* and a call that is computing can always take a further step (it has no
\* failing step).
C6_AllOrNothing ==
    /\ response # NoResponse <=> pc = "done"
    /\ pc = "done" =>
          /\ DOMAIN pix = Pixels(request)
          /\ busy = {}
          /\ Len(response.data) = 4 * Cardinality(Pixels(request))
    /\ pc = "computing" =>
          \/ \E p \in Pixels(request) : Unclaimed(p) /\ Cardinality(busy) < threads
          \/ busy # {}
          \/ \E y \in (0 .. request.height - 1) \ DOMAIN rowvec : RowComplete(y)
          \/ AllRowsCollected

C6_Witness ==
    /\ pc = "done"
    /\ request.height = 2
    /\ Len(response.data) = 8

\* C7: a count r < max_iterations returned by the Mandelbrot evaluator is the
\* first index at which |z|^2 > 4 holds (z_0 = 0, z <- z*z + c), and when the
\* bound is not exceeded at any index the loop tests, max_iterations is
\* returned.
C7_MandelbrotFirstEscape ==
    kind = "mandelbrot" =>
        \A p \in DOMAIN pix :
            LET r == pix[p].iterations
                c == MapPixel(request, p[1], p[2])
                z0 == Complex(0, 0)
            IN  /\ r < request.max_iterations =>
                      /\ Exceeds(z0, c, r)
                      /\ \A j \in 0 .. r - 1 : ~Exceeds(z0, c, j)
                /\ NeverExceedsBelow(z0, c, request.max_iterations)
                      => r = request.max_iterations

C7_Witness ==
    /\ kind = "mandelbrot"
    /\ request.max_iterations = MIN_ITERATIONS
    /\ \E p \in DOMAIN pix : pix[p].iterations = 3
    /\ \E p \in DOMAIN pix : pix[p].iterations = MIN_ITERATIONS

\* C8: for both evaluators the count never exceeds max_iterations, and
\* max_iterations is returned only when |z|^2 > 4 held at none of the indices
\* 0 .. max_iterations-1 that the loop tests.
C8_Saturates ==
    \A p \in DOMAIN pix :
        LET r == pix[p].iterations
        IN  /\ r >= 0
            /\ r <= request.max_iterations
            /\ r = request.max_iterations =>
                  NeverExceedsBelow(StartOf(p), ConstantOf(p), request.max_iterations)

\* a pixel whose orbit exceeds the bound exactly at index max_iterations
C8_Witness ==
    /\ kind = "julia"
    /\ request.max_iterations > 0
    /\ \E p \in DOMAIN pix :
          /\ pix[p].iterations = request.max_iterations
          /\ Exceeds(StartOf(p), ConstantOf(p), request.max_iterations)

\* C10: generate_julia evaluates each pixel with z starting at the pixel's
\* mapped point and c the Julia constant (c_real, c_imag) of the request, with
\* the escape rule |z|^2 > 4 and the cap max_iterations.
C10_JuliaUsesRequestConstant ==
    kind = "julia" =>
        /\ cparam = Complex(request.fractal_type.c_real, request.fractal_type.c_imag)
        /\ \A p \in DOMAIN pix :
              pix[p].iterations =
                  FirstEscape(MapPixel(request, p[1], p[2]),
                              Complex(request.fractal_type.c_real,
                                      request.fractal_type.c_imag),
                              request.max_iterations)

C10_Witness ==
    /\ kind = "julia"
    /\ request.fractal_type.c_real # request.fractal_type.c_imag
    /\ \E p \in DOMAIN pix :
          /\ pix[p].iterations > 0
          /\ pix[p].iterations < request.max_iterations

\* C9: the colour mapper gives opaque black exactly to the count
\* max_iterations; every count below it, from 0 on and for every cap in
\* 50..10000, gets a colour that is not black.
C9_EscapedNeverBlack ==
    \A p \in DOMAIN pix :
        InRange(request.max_iterations, MIN_ITERATIONS, MAX_ITERATIONS) =>
            /\ pix[p].iterations = request.max_iterations => pix[p].colour = Black
            /\ pix[p].iterations < request.max_iterations => pix[p].colour # Black

----------------------------------------------------------------------------
(* Properties of the callers (SpecApi) *)

\* the request of the call the engine is computing or has returned
CurrentRequest == api.calls[api.step].request

\* the request as the client gave it: the defaults filled in, nothing clamped
GivenRequest ==
    IF api.site = "validate" THEN api.params
    ELSE IF api.site = "mandelbrot_handler"
    THEN ApiRequest(unwrap_or(api.params.width, 800),
                    unwrap_or(api.params.height, 600),
                    unwrap_or(api.params.center_x, F(-50000)),
                    unwrap_or(api.params.center_y, F(0)),
                    unwrap_or(api.params.zoom, F(0)),
                    unwrap_or(api.params.max_iterations, 100),
                    Mandelbrot)
    ELSE ApiRequest(unwrap_or(api.params.width, 800),
                    unwrap_or(api.params.height, 600),
                    unwrap_or(api.params.center_x, F(0)),
                    unwrap_or(api.params.center_y, F(0)),
                    unwrap_or(api.params.zoom, F(0)),
                    unwrap_or(api.params.max_iterations, 100),
                    Julia(unwrap_or(api.params.c_real, F(-70000)),
                          unwrap_or(api.params.c_imag, F(27015))))

\* C4: whenever the engine computes, at whatever site the call was made,
\* every field of the request it was given lies within its documented bound.
C4_EngineRequestsInBounds ==
    api.stage \in {"engine", "returned"} => ValidationErrors(CurrentRequest) = {}

\* C5: a request given with a field outside its bound ends in a validation
\* failure that names the field; the value is not coerced and no buffer is
\* produced.
C5_OutOfBoundRejected ==
    (/\ api.site \in {"mandelbrot_handler", "julia_handler", "validate"}
     /\ ValidationErrors(GivenRequest) # {})
    =>  /\ api.buffers = 0
        /\ api.outcome \in {"none", "validation_error"}
        /\ api.stage = "engine" => CurrentRequest = GivenRequest
        /\ api.stage \in {"returned", "validated"} =>
              /\ api.outcome = "validation_error"
              /\ api.errors = ValidationErrors(GivenRequest)

\* the engine has returned to one of the two HTTP handlers
HandlerReturned ==
    /\ api.site \in {"mandelbrot_handler", "julia_handler"}
    /\ api.stage = "returned"

\* C12: whenever a handler's computation succeeded and took more than no time,
\* the pixels_per_second it reports is a finite number greater than 0.
C12_ThroughputFinitePositive ==
    (HandlerReturned /\ api.performance_metrics.elapsed_us > 0) =>
        /\ api.performance_metrics.pixels_per_second.class = "finite"
        /\ api.performance_metrics.pixels_per_second.num > 0

\* C13: the parallel_efficiency a handler reports is a number in [0, 1].
C13_EfficiencyInUnitInterval ==
    HandlerReturned =>
        LET e == api.performance_metrics.parallel_efficiency
        IN  /\ e.class = "finite"
            /\ e.den > 0
            /\ 0 <= e.num
            /\ e.num <= e.den

\* a computation whose quotient exceeds 1 and is reported as 1
C13_Witness ==
    /\ HandlerReturned
    /\ api.performance_metrics.computation_time_ms > 0
    /\ CurrentRequest.width * CurrentRequest.height
          > api.performance_metrics.computation_time_ms
              * api.performance_metrics.cores
    /\ api.performance_metrics.parallel_efficiency = Finite(1, 1)

\* the handler's clamps applied once more to the request it built
Reclamped(req) ==
    LET again == [width |-> Some(req.width), height |-> Some(req.height),
                  center_x |-> Some(req.center_x),
                  center_y |-> Some(req.center_y), zoom |-> Some(req.zoom),
                  max_iterations |-> Some(req.max_iterations)]
    IN  IF req.fractal_type = Mandelbrot
        THEN MandelbrotHandlerRequest(again)
        ELSE JuliaHandlerRequest(
                 again @@ [c_real |-> Some(req.fractal_type.c_real),
                           c_imag |-> Some(req.fractal_type.c_imag)])

\* the validated fields of a request, and the bound of each
BoundedFields == {"width", "height", "center_x", "center_y", "zoom", "max_iterations"}

\* C15: the clamping of the two handlers is idempotent (clamping the clamped
\* request again leaves it unchanged), passes a value that is within its bound
\* unchanged, and always gives a value within the field's validation bound.
C15_ClampIdempotentWithinBound ==
    (/\ api.site \in {"mandelbrot_handler", "julia_handler"}
     /\ api.stage \in {"engine", "returned"})
    =>  /\ Reclamped(CurrentRequest) = CurrentRequest
        /\ \A f \in BoundedFields \ ValidationErrors(GivenRequest) :
              CurrentRequest[f] = GivenRequest[f]
        /\ ValidationErrors(CurrentRequest) = {}

----------------------------------------------------------------------------
(* Properties of calls in flight at the same time (SpecConcurrent) *)

\* C11: calls running at the same time with their own requests do not
\* interfere: at every moment the pixels a call holds are pixels of its own
\* request with the values of its own request, and the buffer it returns is
\* the buffer a single worker computes for its request alone.
C11_Reentrant ==
    \A i \in CallIds :
        /\ conc[i].pc # "idle" =>
              /\ conc[i].busy \subseteq Pixels(conc[i].request)
              /\ DOMAIN conc[i].pix \subseteq Pixels(conc[i].request)
              /\ \A p \in DOMAIN conc[i].pix :
                    conc[i].pix[p] = PixelValue(conc[i].kind, conc[i].request,
                                                conc[i].cparam, p[1], p[2])
        /\ conc[i].pc = "done" =>
              conc[i].response.data =
                  SequentialBuffer(conc[i].kind, conc[i].request, conc[i].cparam)

\* two calls that ran at the same time on different requests and returned
\* different buffers
C11_Witness ==
    \E i \in CallIds : \E j \in CallIds \ {i} :
        /\ conc[i].pc = "done"
        /\ conc[j].pc = "done"
        /\ conc[i].overlap
        /\ conc[i].request # conc[j].request
        /\ conc[i].response.data # conc[j].response.data

----------------------------------------------------------------------------
(* Properties of the pure functions (SpecFunctions) *)

\* log10(max(zoom, 1)): max(zoom, 1) is 1 for a zoom of at most 1
LogOfZoomAtLeastOne(zoom) ==
    IF zoom.class = "pow10" /\ zoom.exp >= 0 THEN zoom.exp ELSE 0

\* score = width*height*max_iterations*log10(max(zoom, 1)) / 1_000_000 is
\* below the whole number limit
ScoreBelow(width, height, max_iterations, zoom, limit) ==
    ProductBelow(width * height, max_iterations * LogOfZoomAtLeastOne(zoom),
                 limit * 1000000)

\* C14: for every zoom that is a number, from_parameters gives Low exactly
\* when the score is below 1, Medium exactly when 1 <= score < 10, High
\* exactly when 10 <= score < 100 and Extreme otherwise; (256, 256, 50, 1.0)
\* is Low and (2048, 2048, 1000, 1000.0) is Extreme.
C14_ComplexityClasses ==
    (util.op = "from_parameters" /\ util.zoom.class # "nan") =>
        LET Below(limit) == ScoreBelow(util.width, util.height,
                                       util.iterations, util.zoom, limit)
        IN  /\ util.result = "Low" <=> Below(1)
            /\ util.result = "Medium" <=> (~Below(1) /\ Below(10))
            /\ util.result = "High" <=> (~Below(10) /\ Below(100))
            /\ util.result = "Extreme" <=> ~Below(100)
            /\ (/\ util.width = 256 /\ util.height = 256
                /\ util.iterations = 50 /\ util.zoom = PowerOfTen(0))
                  => util.result = "Low"
            /\ (/\ util.width = 2048 /\ util.height = 2048
                /\ util.iterations = 1000 /\ util.zoom = PowerOfTen(3))
                  => util.result = "Extreme"

\* the second case of the classification test
C14_Witness ==
    /\ util.op = "from_parameters"
    /\ util.width = 2048
    /\ util.height = 2048
    /\ util.iterations = 1000
    /\ util.zoom = PowerOfTen(3)
    /\ util.result = "Extreme"

\* C16: for a fixed cap and counts i1 <= i2 below it, no channel of the colour
\* of i1 is larger than the same channel of the colour of i2.
C16_ChannelsMonotone ==
    util.op = "iteration_to_dark_color" =>
        \A channel \in 1 .. 3 : util.c1[channel] <= util.c2[channel]

\* the counts around the one at which the f64 product is rounded down
C16_Witness ==
    /\ util.op = "iteration_to_dark_color"
    /\ util.max_iterations = MIN_ITERATIONS
    /\ util.i1 = 28
    /\ util.i2 = 29
    /\ util.c1 = <<16, 28, 44, 255>>
    /\ util.c2 = <<17, 28, 46, 255>>

\* C17: for c = 2 + 2i and every cap of at least 50 the Mandelbrot evaluator
\* returns a count of at most 5.
C17_FarPointEscapes ==
    (/\ util.op = "mandelbrot_iterations"
     /\ util.c = Complex(2, 2)
     /\ util.max_iterations >= 50)
    => util.result <= 5

C17_Witness ==
    /\ util.op = "mandelbrot_iterations"
    /\ util.c = Complex(2, 2)
    /\ util.max_iterations = MAX_ITERATIONS
    /\ util.result = 1

----------------------------------------------------------------------------
(* Properties of the retry helper (SpecRetry) *)

\* C18: a validation failure is never retried: is_retryable is false for
\* ValidationError and true for ExternalApiError and RateLimitError, and
\* retry_with_backoff never invokes the operation again after it failed with
\* ValidationError.
C18_ValidationNeverRetried ==
    /\ ~is_retryable("ValidationError")
    /\ is_retryable("ExternalApiError")
    /\ is_retryable("RateLimitError")
    /\ (retry.pc = "calling" /\ retry.attempt > 0)
          => retry.last_error # "ValidationError"

\* a run of async_utils::retry_with_backoff (lib.rs) has invoked the
\* operation at most max_retries times and slept fewer times than that; it
\* returns Ok at the first success, else the error of the last of its
\* max_retries attempts
LibRetryBounded ==
    /\ retry.invocations <= retry.max_retries
    /\ retry.attempt <= retry.invocations
    /\ retry.pc = "returned" =>
          \/ retry.result = "Ok" /\ retry.invocations = retry.attempt + 1
          \/ /\ retry.result = retry.last_error
             /\ retry.result \in AppErrors
             /\ retry.invocations = retry.max_retries

\* the same for a run of retry_with_backoff of utils/mod.rs, whose delay
\* never exceeds max_delay after the first sleep
UtilsRetryBounded ==
    /\ backoff.invocations <= backoff.max_attempts
    /\ backoff.sleeps <= backoff.invocations
    /\ backoff.sleeps > 0 => backoff.current_delay <= backoff.max_delay
    /\ backoff.pc = "returned" =>
          \/ backoff.result = "Ok" /\ backoff.invocations = backoff.sleeps + 1
          \/ /\ backoff.result = backoff.last_error
             /\ backoff.result \in OperationErrors
             /\ backoff.invocations = backoff.max_attempts

\* C26: both retry functions invoke the operation at most max_attempts /
\* max_retries times, return the first Ok without a further invocation, return
\* the error of the last attempt if every attempt failed, sleep fewer times
\* than they invoke, and every run that has begun to call the operation
\* comes to its return.
C26_BoundedRetries ==
    /\ [](LibRetryBounded /\ UtilsRetryBounded)
    /\ (retry.pc \in {"calling", "sleeping"}) ~> (retry.pc = "returned")
    /\ (backoff.pc \in {"calling", "sleeping"}) ~> (backoff.pc = "returned")

\* three attempts, the first two fail (two sleeps), the third fails and its
\* error is returned
C26_Witness ==
    /\ backoff.pc = "returned"
    /\ backoff.max_attempts = 3
    /\ backoff.invocations = 3
    /\ backoff.sleeps = 2
    /\ backoff.last_error = "CacheError"
    /\ backoff.result = "CacheError"

\* C27: neither retry function runs into the unreachable!() behind its loop:
\* every call returns Ok or Err.
C27_UnreachableNeverExecuted ==
    /\ retry.pc # "panicked"
    /\ backoff.pc # "panicked"

----------------------------------------------------------------------------
(* Properties of the metrics counters (SpecMetrics) *)

\* C19: when every call of increment_counter / add_to_counter on the counter
\* has completed, the counter's value is the sum of the values added.
C19_CounterIsSum ==
    (/\ \A t \in Tasks : collector.tasks[t].pc = "idle"
     /\ collector.issued > 0)
    =>  /\ CounterName \in DOMAIN collector.counters
        /\ collector.counters[CounterName] = collector.total

----------------------------------------------------------------------------
(* Properties of the rate limiter (SpecLimiter) *)

\* C20: a call of is_allowed returns true only if fewer than max_requests
\* earlier allowed calls began less than window before it returns, so no span
\* shorter than window holds more than max_requests allowed calls; and the
\* list of kept instants never holds more than max_requests.
C20_AtMostMaxPerWindow ==
    /\ Len(limiter.requests) <= limiter.max_requests
    /\ (limiter.last.op = "is_allowed" /\ limiter.last.result)
          => limiter.last.recent < limiter.max_requests

\* limit 2: allowed, allowed, denied
C20_Witness ==
    /\ limiter.max_requests = 2
    /\ limiter.last.op = "is_allowed"
    /\ ~limiter.last.result
    /\ limiter.last.recent = 2
    /\ Len(limiter.requests) = 2

----------------------------------------------------------------------------
(* Properties of the e-mail check (SpecFunctions) *)

\* the text before the first '@' is empty
EmptyLocalPart(email) == email # <<>> /\ email[1] = "@"

\* C22: is_valid_email accepts "test@example.com", rejects every string
\* without '@', and rejects every string whose text before '@' is empty.
C22_EmailAcceptedAndRejected ==
    util.op = "is_valid_email" =>
        /\ util.email = TestAddress => util.result
        /\ ~contains(util.email, "@") => ~util.result
        /\ EmptyLocalPart(util.email) => ~util.result

----------------------------------------------------------------------------
(* Properties of the cache service (SpecCache, SpecCacheConcurrent) *)

\* the call that returned before the one in progress
PreviousCall == cache.previous

\* the previous call set a value, and fewer than its ttl seconds have passed
\* at the time `at` since it read the clock
PreviousSetHolds(at) ==
    /\ PreviousCall.op = "set"
    /\ PreviousCall.result.ok
    /\ at < PreviousCall.now + PreviousCall.ttl

\* C21: with calls made one after another, a get that follows a successful
\* set less than ttl seconds after it returns Some of the value set; a delete
\* of a key that is present (just set and not expired, or just read by a get
\* that returned Some) returns true; a get that follows a delete returns None.
C21_RoundTrip ==
    \A t \in CacheClients :
        LET c == cache.clients[t]
        IN  c.pc = "done" =>
              /\ (c.op = "get" /\ PreviousSetHolds(c.at))
                    => c.result = Ok(Some(PreviousCall.value))
              /\ (c.op = "delete"
                  /\ \/ PreviousSetHolds(cache.now)
                     \/ PreviousCall.op = "get" /\ PreviousCall.result.value.some)
                    => c.result = Ok(TRUE)
              /\ (c.op = "get" /\ PreviousCall.op = "delete")
                    => c.result = Ok(None)

\* a get a second after set("v1", 2 s) returned Some("v1"), and the delete
\* that follows it returns true
C21_Witness ==
    /\ cache.calls = 3
    /\ cache.key = NoKey
    /\ PreviousCall.op = "get"
    /\ PreviousCall.at = 1
    /\ PreviousCall.result = Ok(Some("v1"))
    /\ PreviousCall.entry.expires_at = 2
    /\ cache.clients[1].pc = "done"
    /\ cache.clients[1].op = "delete"
    /\ cache.clients[1].result = Ok(TRUE)

\* C23: once every call has completed, the key holds the value of the last
\* set (or nothing, if that value has expired), and nothing if a delete came
\* last: no get has put back an older value or a deleted entry, or removed a
\* newer one.
C23_GetKeepsStoredValue ==
    (\A t \in ConcurrentClients : cache.clients[t].pc = "idle") =>
        LET found == Stored(cache.now)
        IN  /\ cache.written.op = "delete" => ~found.present
            /\ cache.written.op = "set" =>
                  IF found.present
                  THEN found.entry.data = cache.written.data
                  ELSE cache.now >= cache.written.expires_at

----------------------------------------------------------------------------
(* Properties of the circuit breaker (SpecBreaker, SpecBreakerConcurrent) *)

\* the mutex a thread is waiting for, or "none"
Awaited(t) ==
    LET at == breaker.callers[t].pc
    IN  IF at \in {"lock_state", "fail_lock_state", "reset_state"}
        THEN "state"
        ELSE IF at \in {"lock_failure_count", "fail_lock_failure_count",
                        "reset_failure_count"}
        THEN "failure_count"
        ELSE IF at \in {"lock_last_failure_time", "fail_lock_last_failure_time"}
        THEN "last_failure_time"
        ELSE "none"

\* thread a waits for a mutex that thread b holds
WaitsFor(a, b) ==
    /\ Awaited(a) # "none"
    /\ breaker.locks[Awaited(a)] = b

\* C24: no two calls of call() on the same breaker wait for each other: no
\* thread waits for a mutex held by a thread that waits for a mutex the
\* first one holds.
C24_CallsNeverBlockEachOther ==
    \A a \in ConcurrentCallers, b \in ConcurrentCallers :
        ~(a # b /\ WaitsFor(a, b) /\ WaitsFor(b, a))

\* no call is between its entry check and its return
NoCallInProgress ==
    \A t \in BreakerCallers : breaker.callers[t].pc \in {"idle", "done"}

\* C25: once failure_threshold operations (at least one) have failed with no
\* success in between, the breaker is Open; a call that finds it Open no
\* more than timeout after the last failure returns ServiceUnavailableError
\* and has not invoked the operation; a call that finds it Open more than
\* timeout after the last failure is let through.
C25_OpenUntilTimeout ==
    /\ (/\ NoCallInProgress
        /\ breaker.consecutive >= 1
        /\ breaker.consecutive >= breaker.failure_threshold)
          => breaker.state = "Open"
    /\ \A t \in BreakerCallers :
        LET c == breaker.callers[t]
        IN  (c.pc = "done" /\ c.seen = "Open") =>
              IF c.elapsed <= breaker.timeout
              THEN c.result = Err("ServiceUnavailableError") /\ ~c.invoked
              ELSE c.invoked

\* threshold 2, timeout 2: two failures, then a call one tick later is refused
C25_Witness ==
    /\ breaker.failure_threshold = 2
    /\ breaker.timeout = 2
    /\ breaker.consecutive = 2
    /\ breaker.state = "Open"
    /\ breaker.callers[1].pc = "done"
    /\ breaker.callers[1].seen = "Open"
    /\ breaker.callers[1].elapsed = 1
    /\ ~breaker.callers[1].invoked
    /\ breaker.callers[1].result = Err("ServiceUnavailableError")

====
